---- MODULE Spec2Model ----
(***************************************************************************)
(* A model of the uinex / pygameui widget core: the lifecycle flags of a   *)
(* widget (pygameui/core/basewidget.py, uinex/widget/buttons.py,           *)
(* uinex/widget/boxes.py), the three geometry managers                     *)
(* (pygameui/core/geometry.py) and the configure() accessor.               *)
(*                                                                         *)
(* One widget is modelled.  Its class is chosen at construction (kind).    *)
(* Every public method is one action; lastOp, args, raised, called and pre *)
(* are history variables recording the last call, its arguments, the       *)
(* exception it raised, the callback it reached and the widget as it was   *)
(* before the call.                                                        *)
(*                                                                         *)
(* Button and TextBox derive from uinex.widget.base.Widget; the methods    *)
(* they inherit are taken from _Widget of pygameui/core/basewidget.py.     *)
(* The hover and click mixins of uinex.utils.mixins follow their           *)
(* description in the design document.  Events are pointer events of the   *)
(* left button.                                                            *)
(***************************************************************************)
EXTENDS Integers, Sequences, FiniteSets, TLC

VARIABLES
    kind,           \* class of the widget
    state,          \* _state
    disabled,       \* _disabled
    focused,        \* _focused
    visible,        \* _visible
    hover,          \* Button: hover signal of HoverableMixin
    clicked,        \* Button: click signal of ClickableMixin
    cursor_timer,   \* TextBox: _cursor_timer (ms)
    cursor_visible, \* TextBox: _cursor_visible
    rect,           \* _rect: [x, y, w, h]
    master,         \* size of the parent surface _master: [w, h]
    opt,            \* the option attributes of Pack, Grid and Place
    grid_size,      \* Grid.num_rows, Grid.num_columns (class attributes)
    nops,           \* number of geometry and configure calls made so far
    config,         \* the attributes configure() reads and writes
    result,         \* value returned by the last configure(key) call
    prev,           \* name and arguments of the call before the last one
    theme,          \* ThemeManager.theme
    loaded,         \* ThemeManager._currently_loaded_theme
    wkind,          \* class of the themed widget constructed last, or None
    style,          \* the values that widget took from the theme
    built,          \* ThemeManager.theme as it was at that construction
    painted,        \* the style attributes the last draw of it used
    children,       \* BaseManager.children: layer -> list of widgets
    parent,         \* widget.parent of each registrable widget
    walked,         \* the widgets the last walk_widgets call yielded
    checked,        \* RadioButton.checked of each radio button
    group,          \* RadioButton.group of each radio button
    RADIO_GROUPS,   \* _RADIO_GROUPS: group name -> list of radio buttons
    made,           \* the radio buttons constructed so far
    args,           \* arguments of the last call
    lastOp,         \* name of the last method called
    raised,         \* exception raised by the last call, or "none"
    called,         \* callback the last call reached, or "none"
    pre             \* snapshot of the widget before the last call

lifeVars == <<kind, state, disabled, focused, visible, hover, clicked,
              cursor_timer, cursor_visible>>
geomVars == <<rect, master, opt, grid_size, nops>>
histVars == <<lastOp, raised, called, pre, args>>
confVars == <<config, result, prev>>
themeVars == <<theme, loaded, wkind, style, built, painted>>
regVars == <<children, parent, walked>>
radioVars == <<checked, group, RADIO_GROUPS, made>>
vars == <<lifeVars, geomVars, histVars, confVars, themeVars, regVars,
          radioVars>>

----------------------------------------------------------------------------
(* Bounds and program constants *)

\* delta values handed to update(), already multiplied by 1000 (boxes.py:217)
DeltaMs == {200, 300}

\* TextBox._blink_interval (boxes.py:88)
BlinkInterval == 500

\* the widget classes the model constructs
Kinds == {"_Widget", "DummyWidget", "Button", "TextBox"}

\* values offered to the state setter and to Button(state=...)
StateNames == {"normal", "hovered", "clicked", "disabled", "off"}

\* len() of each state name, as basewidget.py:479 computes it
StrLen(s) ==
    CASE s = "normal"   -> 6
      [] s = "hovered"  -> 7
      [] s = "clicked"  -> 7
      [] s = "disabled" -> 8
      [] s = "off"      -> 3

\* width and height given to the constructor
WidgetW == 50
WidgetH == 20

\* pointer positions of the events handed to handle()
Points == {<<1, 1>>, <<WidgetW + 500, 1>>}
EventTypes == {"MOUSEMOTION", "MOUSEBUTTONDOWN", "MOUSEBUTTONUP"}
Events == [type : EventTypes, pos : Points]

----------------------------------------------------------------------------
(* Helpers *)

\* pygame.Rect.collidepoint
CollidePoint(r, p) ==
    /\ r.x <= p[1] /\ p[1] < r.x + r.w
    /\ r.y <= p[2] /\ p[2] < r.y + r.h

Snapshot ==
    [state |-> state, disabled |-> disabled, focused |-> focused,
     visible |-> visible, hover |-> hover, clicked |-> clicked,
     cursor_timer |-> cursor_timer, cursor_visible |-> cursor_visible,
     rect |-> rect, opt |-> opt, config |-> config, theme |-> theme,
     loaded |-> loaded, children |-> children, checked |-> checked]

\* bookkeeping of a call: its name, its arguments, the exception it raised,
\* the callback it reached
RetA(op, a, exc, cb) ==
    /\ lastOp' = op
    /\ args' = a
    /\ raised' = exc
    /\ called' = cb
    /\ pre' = Snapshot
    /\ UNCHANGED <<config, result, prev>>
    /\ UNCHANGED <<themeVars, regVars, radioVars>>

\* the same for a call that takes no geometry argument and leaves the
\* geometry alone
Ret(op, exc, cb) ==
    /\ RetA(op, <<>>, exc, cb)
    /\ UNCHANGED <<rect, master, opt, grid_size, nops>>

----------------------------------------------------------------------------
(* Construction *)

InitLife ==
    /\ kind \in Kinds
    /\ IF kind = "Button"
       THEN state \in (StateNames \ {"off"}) /\ disabled \in BOOLEAN
       ELSE state = "normal" /\ disabled = FALSE
    /\ focused = FALSE
    /\ visible = TRUE
    /\ hover = FALSE
    /\ clicked = FALSE
    /\ cursor_timer = 0
    /\ cursor_visible = TRUE

InitHist ==
    /\ lastOp = "init"
    /\ args = <<>>
    /\ raised = "none"
    /\ called = "none"
    /\ pre = Snapshot
    /\ prev = [op |-> "none", args |-> <<>>]

----------------------------------------------------------------------------
(* Visibility: show(), hide() *)

\* _Widget._set_visible_
SetVisible(value) == visible' = value

\* _Widget.hide
Hide ==
    /\ SetVisible(FALSE)
    /\ UNCHANGED <<kind, state, disabled, focused, hover, clicked,
                   cursor_timer, cursor_visible>>
    /\ Ret("hide", "none", "none")

\* _Widget.show
Show ==
    /\ SetVisible(TRUE)
    /\ UNCHANGED <<kind, state, disabled, focused, hover, clicked,
                   cursor_timer, cursor_visible>>
    /\ Ret("show", "none", "none")

----------------------------------------------------------------------------
(* The state property *)

\* _Widget.state setter: a name shorter than six characters is rejected
SetState(value) ==
    /\ IF StrLen(value) < 6
       THEN /\ UNCHANGED state
            /\ Ret("state=", "ValueError", "none")
       ELSE /\ state' = value
            /\ Ret("state=", "none", "none")
    /\ UNCHANGED <<kind, disabled, focused, visible, hover, clicked,
                   cursor_timer, cursor_visible>>

----------------------------------------------------------------------------
(* enable(), disable() *)

\* _Widget.enable: show(), then clear the flag, then state = "normal"
WidgetEnable ==
    /\ SetVisible(TRUE)
    /\ disabled' = FALSE
    /\ state' = "normal"
    /\ UNCHANGED <<hover, clicked>>

\* a disable() that sets the state name and forgets the flag
WidgetDisableNoFlag ==
    /\ state' = "disabled"
    /\ UNCHANGED <<disabled, visible, hover, clicked>>

\* _Widget.disable
WidgetDisable ==
    /\ state' = "disabled"
    /\ disabled' = TRUE
    /\ UNCHANGED <<visible, hover, clicked>>

\* Button.enable: acts only on a disabled button, and does not call show()
ButtonEnable ==
    /\ IF disabled
       THEN disabled' = FALSE /\ state' = "normal"
       ELSE UNCHANGED <<disabled, state>>
    /\ UNCHANGED <<visible, hover, clicked>>

\* Button.disable: acts only on an enabled button; clears the mixin signals
ButtonDisable ==
    IF ~disabled
    THEN /\ disabled' = TRUE
         /\ state' = "disabled"
         /\ hover' = FALSE
         /\ clicked' = FALSE
         /\ UNCHANGED visible
    ELSE UNCHANGED <<disabled, state, hover, clicked, visible>>

Enable ==
    /\ IF kind = "Button" THEN ButtonEnable ELSE WidgetEnable
    /\ UNCHANGED <<kind, focused, cursor_timer, cursor_visible>>
    /\ Ret("enable", "none", "none")

Disable ==
    /\ IF kind = "Button" THEN ButtonDisable ELSE WidgetDisable
    /\ UNCHANGED <<kind, focused, cursor_timer, cursor_visible>>
    /\ Ret("disable", "none", "none")

----------------------------------------------------------------------------
(* focus(), unfocus() *)

\* _Widget.focus: the body assigns False
Focus ==
    /\ focused' = FALSE
    /\ UNCHANGED <<kind, state, disabled, visible, hover, clicked,
                   cursor_timer, cursor_visible>>
    /\ Ret("focus", "none", "none")

\* _Widget.unfocus: the body assigns True
Unfocus ==
    /\ focused' = TRUE
    /\ UNCHANGED <<kind, state, disabled, visible, hover, clicked,
                   cursor_timer, cursor_visible>>
    /\ Ret("unfocus", "none", "none")

----------------------------------------------------------------------------
(* The callbacks a concrete widget supplies *)

\* HoverableMixin._check_hover: pointer motion sets the hover signal to
\* "the pointer is inside rect"
CheckHover(ev) ==
    IF ev.type = "MOUSEMOTION"
    THEN hover' = CollidePoint(rect, ev.pos)
    ELSE UNCHANGED hover

\* ClickableMixin._check_click: a press inside rect raises the click signal;
\* a release, or the pointer leaving rect, clears it
CheckClick(ev) ==
    CASE ev.type = "MOUSEBUTTONDOWN" /\ CollidePoint(rect, ev.pos) ->
            clicked' = TRUE
      [] ev.type = "MOUSEBUTTONUP" ->
            clicked' = FALSE
      [] ev.type = "MOUSEMOTION" /\ ~CollidePoint(rect, ev.pos) ->
            clicked' = FALSE
      [] OTHER -> UNCHANGED clicked

\* a derivation that ranks the click signal above the hover signal
ButtonDeriveStateClickFirst ==
    IF ~disabled
    THEN IF clicked THEN "clicked"
         ELSE IF hover THEN "hovered"
         ELSE "normal"
    ELSE "disabled"

\* Button._set_state_(None): the priority derivation from the flags
ButtonDeriveState ==
    IF ~disabled
    THEN IF hover THEN "hovered"
         ELSE IF clicked THEN "clicked"
         ELSE "normal"
    ELSE "disabled"

\* TextBox._handle_event_, mouse part: a left press inside rect takes the
\* focus, a left press outside drops it
TextBoxHandleMouse(ev) ==
    IF ev.type = "MOUSEBUTTONDOWN"
    THEN focused' = CollidePoint(rect, ev.pos)
    ELSE UNCHANGED focused

\* TextBox._perform_update_: the cursor blink timer
TextBoxUpdate(delta) ==
    IF focused
    THEN IF cursor_timer + delta >= BlinkInterval
         THEN cursor_visible' = ~cursor_visible /\ cursor_timer' = 0
         ELSE cursor_timer' = cursor_timer + delta /\ UNCHANGED cursor_visible
    ELSE cursor_visible' = FALSE /\ UNCHANGED cursor_timer

\* _perform_draw_ of the widget's class; the base class's raises
PerformDraw ==
    /\ UNCHANGED lifeVars
    /\ IF kind = "_Widget"
       THEN Ret("draw", "NotImplementedError", "_perform_draw_")
       ELSE Ret("draw", "none", "_perform_draw_")

\* _handle_event_ of the widget's class; the base class's raises
HandleEvent(ev) ==
    CASE kind = "_Widget" ->
            /\ UNCHANGED lifeVars
            /\ Ret("handle", "NotImplementedError", "_handle_event_")
      [] kind = "DummyWidget" ->
            /\ UNCHANGED lifeVars
            /\ Ret("handle", "none", "_handle_event_")
      [] kind = "Button" ->
            /\ CheckHover(ev)
            /\ CheckClick(ev)
            /\ UNCHANGED <<kind, state, disabled, focused, visible,
                           cursor_timer, cursor_visible>>
            /\ Ret("handle", "none", "_handle_event_")
      [] kind = "TextBox" ->
            /\ TextBoxHandleMouse(ev)
            /\ UNCHANGED <<kind, state, disabled, visible, hover, clicked,
                           cursor_timer, cursor_visible>>
            /\ Ret("handle", "none", "_handle_event_")

\* _perform_update_ of the widget's class; the base class's raises
PerformUpdate(delta) ==
    CASE kind = "_Widget" ->
            /\ UNCHANGED lifeVars
            /\ Ret("update", "NotImplementedError", "_perform_update_")
      [] kind = "DummyWidget" ->
            /\ UNCHANGED lifeVars
            /\ Ret("update", "none", "_perform_update_")
      [] kind = "Button" ->
            /\ state' = ButtonDeriveState
            /\ UNCHANGED <<kind, disabled, focused, visible, hover, clicked,
                           cursor_timer, cursor_visible>>
            /\ Ret("update", "none", "_perform_update_")
      [] kind = "TextBox" ->
            /\ TextBoxUpdate(delta)
            /\ UNCHANGED <<kind, state, disabled, focused, visible, hover,
                           clicked>>
            /\ Ret("update", "none", "_perform_update_")

----------------------------------------------------------------------------
(* The three per-frame entry points *)

\* the test that sends draw() to the base class's own painting
DrawsOwnRect == visible /\ kind = "_Widget"

\* _Widget.draw: a visible base widget paints its own rectangle (the call
\* into pygame.draw.rect is the host renderer's and is not modelled); every
\* other case, the hidden ones included, goes to _perform_draw_
Draw ==
    IF DrawsOwnRect
    THEN /\ UNCHANGED lifeVars
         /\ Ret("draw", "none", "pygame.draw.rect")
    ELSE PerformDraw

\* _Widget.handle
Handle(ev) == HandleEvent(ev)

\* an update() that reaches the callback whatever the visibility
UpdateRunsAlways == TRUE

\* the test that lets update() reach the callback
UpdateRuns == visible

\* _Widget.update: the callback runs only on a visible widget
Update(delta) ==
    IF UpdateRuns
    THEN PerformUpdate(delta)
    ELSE /\ UNCHANGED lifeVars
         /\ Ret("update", "none", "none")

----------------------------------------------------------------------------
(* Geometry managers: option state *)

\* Python's None for a token-valued attribute; a numeric attribute that is
\* None is the empty tuple and the number v is <<v>>
None == "None"
NoNum == <<>>
Num(v) == <<v>>
IsNum(o) == o # NoNum
Val(o) == o[1]

\* a relative coordinate is held in tenths: RelOne stands for 1.0
RelOne == 10
RelHalf == RelOne \div 2
RelOver == RelOne + RelHalf

\* the padding value the calls and setters are tried with
Pad == 5

\* the absolute coordinate place() is tried with
PosX == 10
PosY == 30

\* the parent surfaces a widget is constructed on
MasterW == 200
MasterH == 120
Masters ==
    {[w |-> MasterW, h |-> MasterH], [w |-> MasterH + 1, h |-> MasterW + 1],
     [w |-> 900, h |-> 600]}

\* Pack.__init__, Grid.__init__ and Place.__init__ as _Widget.__init__ runs
\* them (Place, then Grid, then Pack): the attributes after construction
InitOpt ==
    [side |-> None, fill |-> None, expand |-> None, anchor |-> None,
     ipadx |-> NoNum, ipady |-> NoNum, padx |-> NoNum, pady |-> NoNum,
     row |-> NoNum, column |-> NoNum, rowspan |-> NoNum,
     columnspan |-> NoNum, sticky |-> None,
     x |-> Num(0), y |-> Num(0), relx |-> Num(0), rely |-> Num(0),
     relwidth |-> Num(0), relheight |-> Num(0), bordermode |-> None]

\* the classes a num_rows / num_columns attribute can be set on: Grid, which
\* defines them, and the widget classes that inherit them
ClassNames == {"Grid", "_Widget", "DummyWidget", "Button"}

\* the class a class inherits its attributes from
Base(c) == IF c = "_Widget" THEN "Grid" ELSE "_Widget"

\* a class attribute a class does not define itself
NoAttr == <<>>

\* Grid.num_rows and Grid.num_columns as the class statement leaves them
DefaultGridSize == [rows |-> 3, columns |-> 3]

InitGeom ==
    /\ master \in Masters
    /\ rect = [x |-> 0, y |-> 0, w |-> WidgetW, h |-> WidgetH]
    /\ opt = InitOpt
    /\ grid_size = [c \in ClassNames |->
                        IF c = "Grid" THEN <<DefaultGridSize>> ELSE NoAttr]
    /\ nops = 0

\* number of geometry calls explored in one behaviour
MaxOps == 2

----------------------------------------------------------------------------
(* Property setters, as a _Widget(Place, Grid, Pack) object resolves them *)

Sides == {"top", "bottom", "left", "right"}
Fills == {"none", "x", "y", "both"}

\* Pack.side setter
SideAccepts(v) == v \in Sides
\* Pack.fill setter
FillAccepts(v) == v \in Fills
\* Pack.expand setter: isinstance(value, bool)
ExpandAccepts(v) == v \in {"True", "False"}
\* Place.anchor setter, which a widget resolves before Pack's: no test
AnchorAccepts(v) == TRUE
\* Grid.ipadx / ipady / padx / pady setters
PadAccepts(v) == ~(Val(v) < 0)
\* Place.relx / rely / relwidth / relheight setters
RelAccepts(v) == 0 <= Val(v) /\ Val(v) <= RelOne

PropNames == {"side", "fill", "expand", "anchor", "ipadx", "ipady", "padx",
              "pady", "relx", "rely", "relwidth", "relheight"}

Accepts(name, v) ==
    CASE name = "side" -> SideAccepts(v)
      [] name = "fill" -> FillAccepts(v)
      [] name = "expand" -> ExpandAccepts(v)
      [] name = "anchor" -> AnchorAccepts(v)
      [] name \in {"ipadx", "ipady", "padx", "pady"} -> PadAccepts(v)
      [] name \in {"relx", "rely", "relwidth", "relheight"} -> RelAccepts(v)

\* the values each property is assigned in the exploration
PropValues(name) ==
    CASE name = "side" -> {"bottom", "left", "right", "middle"}
      [] name = "fill" -> {"x", "y", "both", "all"}
      [] name = "expand" -> {"True", "False", "1"}
      [] name = "anchor" -> {"center", "middle"}
      [] name \in {"ipadx", "ipady", "padx", "pady"} -> {Num(Pad), Num(-1)}
      [] name \in {"relx", "rely", "relwidth", "relheight"} ->
            {Num(RelHalf), Num(RelOver)}

\* widget.<name> = v
SetProperty(name, v) ==
    /\ nops < MaxOps
    /\ nops' = nops + 1
    /\ IF Accepts(name, v)
       THEN /\ opt' = [opt EXCEPT ![name] = v]
            /\ RetA("set", [name |-> name, value |-> v], "none", "none")
       ELSE /\ UNCHANGED opt
            /\ RetA("set", [name |-> name, value |-> v], "ValueError", "none")
    /\ UNCHANGED <<rect, master, grid_size>>
    /\ UNCHANGED lifeVars

----------------------------------------------------------------------------
(* Pack *)

\* the keyword arguments of pack() with their default values; extra says
\* whether a keyword pack() does not name (such as sidee) was passed too
PackDefaults ==
    [anchor |-> None, ipadx |-> 0, ipady |-> 0, expand |-> "0", fill |-> None,
     side |-> None, padx |-> 0, pady |-> 0, extra |-> FALSE]

PackCalls ==
    {[PackDefaults EXCEPT !.side = sd, !.padx = p] :
        sd \in Sides \cup {None}, p \in {0, Pad}}
    \cup {[PackDefaults EXCEPT !.fill = "x"],
          [PackDefaults EXCEPT !.pady = Pad],
          [PackDefaults EXCEPT !.ipadx = Pad],
          [PackDefaults EXCEPT !.ipady = Pad],
          [PackDefaults EXCEPT !.extra = TRUE],
          [PackDefaults EXCEPT !.side = "top", !.fill = "x", !.padx = Pad,
                               !.pady = Pad]}

\* the options pack() works with: it reads the stored attributes, and its
\* keyword arguments reach none of them; a side of None becomes "top"
PackStore(o, kw) ==
    [o EXCEPT !.side = IF o.side = None THEN "top" ELSE o.side]

\* "Positioning based on side"
PackPosition(r, o, m) ==
    CASE o.side = "top" -> [r EXCEPT !.y = 0]
      [] o.side = "bottom" -> [r EXCEPT !.y = m.h - r.h]
      [] o.side = "left" -> [r EXCEPT !.x = 0]
      [] o.side = "right" -> [r EXCEPT !.x = m.w - r.w]
      [] OTHER -> r

\* "Fill options"
PackFill(r, o, m) ==
    CASE o.fill = "x" -> [r EXCEPT !.w = m.w]
      [] o.fill = "y" -> [r EXCEPT !.h = m.h]
      [] o.fill = "both" -> [r EXCEPT !.w = m.w, !.h = m.h]
      [] OTHER -> r

\* "Expand options": the test is the truth value of _expand
PackExpand(r, o, m) ==
    IF o.expand = "True"
    THEN CASE o.side \in {"top", "bottom"} -> [r EXCEPT !.w = m.w]
           [] o.side \in {"left", "right"} -> [r EXCEPT !.h = m.h]
           [] OTHER -> r
    ELSE r

\* "Padding adjustments", the same lines in pack() and grid()
Padding(r, o) ==
    [r EXCEPT
        !.w = r.w + (IF IsNum(o.ipadx) THEN Val(o.ipadx) * 2 ELSE 0)
                  + (IF IsNum(o.padx) THEN Val(o.padx) * 2 ELSE 0),
        !.h = r.h + (IF IsNum(o.ipady) THEN Val(o.ipady) * 2 ELSE 0)
                  + (IF IsNum(o.pady) THEN Val(o.pady) * 2 ELSE 0)]

\* the rectangle pack() leaves, from the rectangle r it finds
PackRect(r, o, m) ==
    Padding(PackExpand(PackFill(PackPosition(r, o, m), o, m), o, m), o)

\* Pack.pack(**kw)
Pack(kw) ==
    /\ nops < MaxOps
    /\ nops' = nops + 1
    /\ opt' = PackStore(opt, kw)
    /\ rect' = PackRect(rect, opt', master)
    /\ RetA("pack", kw, "none", "none")
    /\ UNCHANGED <<master, grid_size>>
    /\ UNCHANGED lifeVars

\* a pack(**kw) call made directly after a pack() call
PackAgain(kw) ==
    /\ lastOp = "pack"
    /\ nops < MaxOps + 1
    /\ nops' = nops + 1
    /\ opt' = PackStore(opt, kw)
    /\ rect' = PackRect(rect, opt', master)
    /\ RetA("pack again", kw, "none", "none")
    /\ UNCHANGED <<master, grid_size>>
    /\ UNCHANGED lifeVars

\* Pack.pack_info
pack_info ==
    [anchor |-> opt.anchor, expand |-> opt.expand, fill |-> opt.fill,
     side |-> opt.side, ipadx |-> opt.ipadx, ipady |-> opt.ipady,
     padx |-> opt.padx, pady |-> opt.pady]

----------------------------------------------------------------------------
(* Grid *)

GridDefaults ==
    [row |-> 0, column |-> 0, rowspan |-> 1, columnspan |-> 1, ipadx |-> 0,
     ipady |-> 0, sticky |-> None, padx |-> 0, pady |-> 0, extra |-> FALSE]

GridCalls ==
    {GridDefaults,
     [GridDefaults EXCEPT !.row = 1, !.column = 2],
     [GridDefaults EXCEPT !.rowspan = 2, !.columnspan = 3],
     [GridDefaults EXCEPT !.padx = Pad],
     [GridDefaults EXCEPT !.pady = Pad, !.sticky = "s"],
     [GridDefaults EXCEPT !.row = -1],
     [GridDefaults EXCEPT !.padx = -1],
     [GridDefaults EXCEPT !.extra = TRUE]}

\* the assignments that open grid(): every named argument is stored as given
GridStore(o, kw) ==
    [o EXCEPT !.row = Num(kw.row), !.padx = Num(kw.padx),
              !.pady = Num(kw.pady), !.ipadx = Num(kw.ipadx),
              !.ipady = Num(kw.ipady), !.sticky = kw.sticky,
              !.column = Num(kw.column), !.rowspan = Num(kw.rowspan),
              !.columnspan = Num(kw.columnspan)]

\* division rounding up, which grid() does not use
CeilDiv(a, b) == (a + b - 1) \div b

\* Python's floor division for a positive divisor
FloorDiv(a, b) == a \div b

\* the rectangle grid() leaves
GridRect(r, o, m, g) ==
    LET cell_width == FloorDiv(m.w, g.columns)
        cell_height == FloorDiv(m.h, g.rows)
    IN Padding(
        [x |-> IF IsNum(o.column) THEN Val(o.column) * cell_width ELSE r.x,
         y |-> IF IsNum(o.row) THEN Val(o.row) * cell_height ELSE r.y,
         w |-> IF IsNum(o.columnspan)
               THEN cell_width * Val(o.columnspan) ELSE r.w,
         h |-> IF IsNum(o.rowspan)
               THEN cell_height * Val(o.rowspan) ELSE r.h], o)

\* Grid.grid(**kw)
Grid(kw) ==
    /\ nops < MaxOps
    /\ nops' = nops + 1
    /\ opt' = GridStore(opt, kw)
    /\ rect' = GridRect(rect, opt', master, grid_size["Grid"][1])
    /\ RetA("grid", kw, "none", "none")
    /\ UNCHANGED <<master, grid_size>>
    /\ UNCHANGED lifeVars

\* Grid.grid_info
grid_info ==
    [column |-> opt.column, columnspan |-> opt.columnspan, row |-> opt.row,
     rowspan |-> opt.rowspan, ipadx |-> opt.ipadx, ipady |-> opt.ipady,
     padx |-> opt.padx, pady |-> opt.pady]

----------------------------------------------------------------------------
(* Grid dimensions: the classmethods set_grid_size, get_grid_size and
   reset_grid_size, called through the class cls (through a widget, cls is the
   widget's class) *)

\* cls.num_rows, cls.num_columns: the attribute of the nearest class that
\* defines it
RECURSIVE get_grid_size(_)
get_grid_size(cls) ==
    IF grid_size[cls] # NoAttr
    THEN grid_size[cls][1]
    ELSE get_grid_size(Base(cls))

\* the sizes set_grid_size is tried with
GridSizes == {[rows |-> 2, columns |-> 4], [rows |-> 0, columns |-> 3]}

\* Grid.set_grid_size(rows, columns) called through cls
SetGridSize(cls, g) ==
    /\ nops < MaxOps
    /\ nops' = nops + 1
    /\ IF g.rows < 1 \/ g.columns < 1
       THEN /\ UNCHANGED grid_size
            /\ RetA("set_grid_size", [cls |-> cls, size |-> g],
                    "ValueError", "none")
       ELSE /\ grid_size' = [grid_size EXCEPT ![cls] = <<g>>]
            /\ RetA("set_grid_size", [cls |-> cls, size |-> g],
                    "none", "none")
    /\ UNCHANGED <<rect, master, opt>>
    /\ UNCHANGED lifeVars

\* Grid.reset_grid_size() called through cls
ResetGridSize(cls) ==
    /\ nops < MaxOps
    /\ nops' = nops + 1
    /\ grid_size' = [grid_size EXCEPT ![cls] = <<DefaultGridSize>>]
    /\ RetA("reset_grid_size", [cls |-> cls], "none", "none")
    /\ UNCHANGED <<rect, master, opt>>
    /\ UNCHANGED lifeVars

----------------------------------------------------------------------------
(* Place *)

PlaceDefaults ==
    [x |-> 0, y |-> 0, anchor |-> None, relx |-> 0, rely |-> 0,
     relwidth |-> 0, relheight |-> 0, bordermode |-> None, extra |-> FALSE]

PlaceCalls ==
    {PlaceDefaults,
     [PlaceDefaults EXCEPT !.x = PosX, !.y = PosY],
     [PlaceDefaults EXCEPT !.x = PosX, !.relx = RelHalf],
     [PlaceDefaults EXCEPT !.y = PosY, !.rely = RelHalf, !.anchor = "center"],
     [PlaceDefaults EXCEPT !.relx = RelOver],
     [PlaceDefaults EXCEPT !.rely = RelOver],
     [PlaceDefaults EXCEPT !.relwidth = RelOver],
     [PlaceDefaults EXCEPT !.relheight = RelOver],
     [PlaceDefaults EXCEPT !.extra = TRUE]}

\* the assignments that open place(): every named argument is stored as
\* given, through the attribute and not through the property setter
PlaceStore(o, kw) ==
    [o EXCEPT !.x = Num(kw.x), !.y = Num(kw.y), !.anchor = kw.anchor,
              !.relx = Num(kw.relx), !.rely = Num(kw.rely),
              !.relwidth = Num(kw.relwidth),
              !.relheight = Num(kw.relheight),
              !.bordermode = kw.bordermode]

\* the rectangle place() leaves: the two live assignments of its body
PlaceRect(r, o) == [r EXCEPT !.x = Val(o.x), !.y = Val(o.y)]

\* Place.place(**kw)
Place(kw) ==
    /\ nops < MaxOps
    /\ nops' = nops + 1
    /\ opt' = PlaceStore(opt, kw)
    /\ rect' = PlaceRect(rect, opt')
    /\ RetA("place", kw, "none", "none")
    /\ UNCHANGED <<master, grid_size>>
    /\ UNCHANGED lifeVars

\* Place.place_info
place_info ==
    [x |-> opt.x, y |-> opt.y, relx |-> opt.relx, rely |-> opt.rely,
     anchor |-> opt.anchor, relwidth |-> opt.relwidth,
     relheight |-> opt.relheight, bordermode |-> opt.bordermode]

----------------------------------------------------------------------------
(* configure(): one call names one key; widget[key] and widget[key] = value
   are the same calls made through __getitem__ and __setitem__.  A value is
   <<v>> and Python's None is <<>>; colours, fonts, texts and cursors are
   numbered tokens, a list of items is a tuple. *)

\* the classes whose configure() is modelled
ConfKinds == {"_Widget", "DummyWidget", "Button", "TextBox", "SpinBox",
              "ComboBox", "RadioButton", "MenuButton"}

\* the keys _Widget answers
BaseKeys == {"height", "width", "background", "foreground", "cursor"}

\* the keys Button._configure_get_ answers with None
ButtonNoneKeys == {"text_color", "disable_text_color", "select_text_color",
                   "hover_text_color", "select_color", "hover_color"}

\* the keys a class answers itself, before it asks its base class
OwnGetKeys(k) ==
    CASE k = "Button" -> {"text", "font", "image", "underline"}
      [] k = "TextBox" -> {"text", "focused", "max_length"}
      [] k = "SpinBox" -> {"value", "min_value", "max_value", "step"}
      [] k = "ComboBox" -> {"items", "selected", "text"}
      [] k = "RadioButton" -> {"checked", "text", "group"}
      [] k = "MenuButton" -> {"text", "menu_items", "menu_open"}
      [] OTHER -> {}

\* the empty string
NoText == Num(0)

\* the attributes each constructor leaves; TextBox's focused flag is the
\* variable focused
OwnInit(k) ==
    CASE k = "Button" ->
            [text |-> Num(1), font |-> Num(1), image |-> NoNum,
             underline |-> Num(FALSE)]
      [] k = "TextBox" -> [text |-> NoText, max_length |-> NoNum]
      [] k = "SpinBox" ->
            [value |-> Num(0), min_value |-> Num(0), max_value |-> Num(100),
             step |-> Num(1)]
      [] k = "ComboBox" ->
            [items |-> Num(<<>>), selected |-> Num(-1), text |-> NoText]
      [] k = "RadioButton" ->
            [checked |-> Num(FALSE), text |-> NoText, group |-> NoNum]
      [] k = "MenuButton" ->
            [text |-> Num(1), menu_items |-> Num(<<>>),
             menu_open |-> Num(FALSE)]
      [] OTHER -> <<>>

BaseInit ==
    [height |-> Num(WidgetH), width |-> Num(WidgetW), background |-> Num(0),
     foreground |-> Num(0), cursor |-> NoNum]

InitConf ==
    /\ config = BaseInit @@ OwnInit(kind)
    /\ result = NoNum

\* kwargs.pop(key, default) of a call that passes the one keyword k = v
KwargsPop(k, v, key, default) == IF k = key THEN v ELSE default

\* Button's helper _kwarg_get(kwargs, key, default)
KwargGet(k, v, key, default) == KwargsPop(k, v, key, default)

\* _Widget._configure_set_ with the cursor line left out
BaseConfigureSetNoCursor(c, k, v) ==
    [c EXCEPT !.height = KwargsPop(k, v, "height", c.height),
              !.width = KwargsPop(k, v, "width", c.width),
              !.background = KwargsPop(k, v, "background", c.background),
              !.foreground = KwargsPop(k, v, "foreground", c.foreground)]

\* _Widget._configure_set_
BaseConfigureSet(c, k, v) ==
    [c EXCEPT !.height = KwargsPop(k, v, "height", c.height),
              !.width = KwargsPop(k, v, "width", c.width),
              !.background = KwargsPop(k, v, "background", c.background),
              !.foreground = KwargsPop(k, v, "foreground", c.foreground),
              !.cursor = KwargsPop(k, v, "cursor", c.cursor)]

\* _Widget._configure_get_ answering an unknown key with the width
BaseConfigureGetWidth(c, k) == IF k \in BaseKeys THEN c[k] ELSE c.width

\* _Widget._configure_get_
BaseConfigureGet(c, k) == IF k \in BaseKeys THEN c[k] ELSE NoNum

\* Button._configure_set_: it does not call _Widget._configure_set_
ButtonConfigureSet(c, k, v) ==
    [c EXCEPT !.text = KwargGet(k, v, "text", c.text),
              !.font = KwargGet(k, v, "font", c.font),
              !.image = KwargGet(k, v, "image", c.image),
              !.underline = KwargGet(k, v, "underline", c.underline)]

\* Button._configure_get_
ButtonConfigureGet(c, k) ==
    IF k \in OwnGetKeys("Button") THEN c[k]
    ELSE IF k \in ButtonNoneKeys THEN NoNum
    ELSE BaseConfigureGet(c, k)

\* the setting half of TextBox.configure; focused is handled by the action
TextBoxConfigureSet(c, k, v) ==
    IF k \in {"text", "max_length"} THEN [c EXCEPT ![k] = v] ELSE c

\* the getting half of TextBox.configure
TextBoxConfigureGet(c, k) ==
    IF k = "focused" THEN Num(focused)
    ELSE IF k \in {"text", "max_length"} THEN c[k]
    ELSE BaseConfigureGet(c, k)

Min(a, b) == IF a < b THEN a ELSE b
Max(a, b) == IF a < b THEN b ELSE a

\* SpinBox.set_value: the value is clamped to [min_value, max_value]
SpinBoxSetValue(c, v) ==
    [c EXCEPT !.value =
        Num(Max(Val(c.min_value), Min(Val(c.max_value), Val(v))))]

\* the setting half of SpinBox.configure; the step branch stores nothing
SpinBoxConfigureSet(c, k, v) ==
    CASE k = "value" -> SpinBoxSetValue(c, v)
      [] k = "min_value" ->
            SpinBoxSetValue([c EXCEPT !.min_value = v], c.value)
      [] k = "max_value" ->
            SpinBoxSetValue([c EXCEPT !.max_value = v], c.value)
      [] OTHER -> c

\* the text of item number i of the list its, or the empty string
ItemText(its, i) ==
    IF 0 <= i /\ i < Len(its) THEN Num(its[i + 1]) ELSE NoText

\* the setting half of ComboBox.configure
ComboBoxConfigureSet(c, k, v) ==
    CASE k = "items" ->
            LET sel == IF Val(v) # <<>> THEN 0 ELSE -1
            IN [c EXCEPT !.items = v, !.selected = Num(sel),
                         !.text = ItemText(Val(v), sel)]
      [] k = "selected" ->
            [c EXCEPT !.selected = v, !.text = ItemText(Val(c.items), Val(v))]
      [] k = "text" -> [c EXCEPT !.text = v]
      [] OTHER -> c

\* the setting half of RadioButton.configure: checked goes through select()
\* and deselect()
RadioButtonConfigureSet(c, k, v) ==
    CASE k = "checked" -> [c EXCEPT !.checked = Num(Val(v) = TRUE)]
      [] k \in {"text", "group"} -> [c EXCEPT ![k] = v]
      [] OTHER -> c

\* the setting half of MenuButton.configure: menu_open is not among its keys
MenuButtonConfigureSet(c, k, v) ==
    IF k \in {"text", "menu_items"} THEN [c EXCEPT ![k] = v] ELSE c

\* the getting half of the configure() of SpinBox, ComboBox, RadioButton
\* and MenuButton: the class's own keys, then super().configure(key)
OwnConfigureGet(c, k) ==
    IF k \in OwnGetKeys(kind) THEN c[k] ELSE BaseConfigureGet(c, k)

\* configure(**{k: v}) as the widget's class resolves it
ConfigureSetFor(c, k, v) ==
    CASE kind = "Button" -> ButtonConfigureSet(c, k, v)
      [] kind = "TextBox" -> TextBoxConfigureSet(c, k, v)
      [] kind = "SpinBox" -> SpinBoxConfigureSet(c, k, v)
      [] kind = "ComboBox" -> ComboBoxConfigureSet(c, k, v)
      [] kind = "RadioButton" -> RadioButtonConfigureSet(c, k, v)
      [] kind = "MenuButton" -> MenuButtonConfigureSet(c, k, v)
      [] OTHER -> BaseConfigureSet(c, k, v)

\* configure(k) as the widget's class resolves it
ConfigureGetFor(c, k) ==
    CASE kind = "Button" -> ButtonConfigureGet(c, k)
      [] kind = "TextBox" -> TextBoxConfigureGet(c, k)
      [] kind \in {"SpinBox", "ComboBox", "RadioButton", "MenuButton"} ->
            OwnConfigureGet(c, k)
      [] OTHER -> BaseConfigureGet(c, k)

\* the keys configure() is called with: every key some level recognizes and
\* one that none does
Recognized == BaseKeys \cup OwnGetKeys(kind)
                       \cup (IF kind = "Button" THEN ButtonNoneKeys ELSE {})
ConfKeys == Recognized \cup {"nosuchkey"}

\* the values a key is set to
ConfValues(k) ==
    CASE k \in {"checked", "focused", "underline", "menu_open"} ->
            {Num(TRUE), Num(FALSE)}
      [] k \in {"items", "menu_items"} -> {Num(<<>>), Num(<<1, 200>>)}
      [] k \in {"cursor", "image", "group", "max_length"} -> {Num(1), NoNum}
      [] k \in {"width", "height"} -> {Num(1), Num(200), Num(-1)}
      [] OTHER -> {Num(1), Num(200)}

\* bookkeeping of a configure call
RetC(op, a, res) ==
    /\ nops < MaxOps
    /\ nops' = nops + 1
    /\ lastOp' = op
    /\ args' = a
    /\ raised' = "none"
    /\ called' = "none"
    /\ pre' = Snapshot
    /\ result' = res
    /\ prev' = [op |-> lastOp, args |-> args]
    /\ UNCHANGED <<master, opt, grid_size>>
    /\ UNCHANGED <<themeVars, regVars, radioVars>>

\* a configure() that resizes rect to the width and height it stored
ConfigureRectResized(r, c) ==
    [r EXCEPT !.w = Val(c.width), !.h = Val(c.height)]

\* rect after a configure(**kwargs) call that left the attributes c: no
\* configure code assigns to _rect
ConfigureRect(r, c) == r

\* configure(key, **{k: v}): with a key it returns that key's value and sets
\* nothing, without one it sets k and returns None; item says the call came
\* through __getitem__ / __setitem__
Configure(key, k, v, item) ==
    IF key # None
    THEN /\ RetC("configure_get", [key |-> key, item |-> item],
                 ConfigureGetFor(config, key))
         /\ UNCHANGED <<config, rect>>
         /\ UNCHANGED lifeVars
    ELSE /\ RetC("configure_set", [key |-> k, value |-> v, item |-> item],
                 NoNum)
         /\ config' = ConfigureSetFor(config, k, v)
         /\ rect' = ConfigureRect(rect, config')
         /\ focused' = IF kind = "TextBox" /\ k = "focused"
                       THEN Val(v) ELSE focused
         /\ UNCHANGED <<kind, state, disabled, visible, hover, clicked,
                        cursor_timer, cursor_visible>>

\* the width and height property setters: a negative value is rejected
SizeAccepts(v) == ~(Val(v) < 0)

\* widget.width = v, widget.height = v
SetSize(name, v) ==
    /\ nops < MaxOps
    /\ nops' = nops + 1
    /\ lastOp' = "set_size"
    /\ args' = [key |-> name, value |-> v]
    /\ called' = "none"
    /\ pre' = Snapshot
    /\ prev' = [op |-> lastOp, args |-> args]
    /\ IF SizeAccepts(v)
       THEN config' = [config EXCEPT ![name] = v] /\ raised' = "none"
       ELSE UNCHANGED config /\ raised' = "ValueError"
    /\ UNCHANGED <<rect, master, opt, grid_size, result>>
    /\ UNCHANGED lifeVars
    /\ UNCHANGED <<themeVars, regVars, radioVars>>

\* widget.configure(key)
ConfigureGet(key) == Configure(key, None, NoNum, FALSE)
\* widget.configure(k=v)
ConfigureSet(k, v) == Configure(None, k, v, FALSE)
\* widget[key]
GetItem(key) == Configure(key, None, NoNum, TRUE)
\* widget[k] = v
SetItem(k, v) == Configure(None, k, v, TRUE)

----------------------------------------------------------------------------
(* SpinBox: the value and its bounds *)

\* the constructor arguments of a SpinBox
SpinArgs ==
    {[value |-> Num(v), min_value |-> Num(0), max_value |-> Num(100),
      step |-> Num(1)] : v \in {0, 100, 200}}

\* SpinBox.increment
SpinBoxIncrement(c) ==
    LET new_value == Val(c.value) + Val(c.step)
    IN SpinBoxSetValue(c, Num(IF new_value > Val(c.max_value)
                              THEN Val(c.max_value) ELSE new_value))

\* SpinBox.decrement
SpinBoxDecrement(c) ==
    LET new_value == Val(c.value) - Val(c.step)
    IN SpinBoxSetValue(c, Num(IF new_value < Val(c.min_value)
                              THEN Val(c.min_value) ELSE new_value))

\* SpinBox._commit_text: t is the number the text field parses to, or <<>>
\* when it does not parse, and then the value stays
SpinBoxCommitText(c, t) == SpinBoxSetValue(c, IF t = NoNum THEN c.value ELSE t)

\* a SpinBox call that leaves the attributes c2
SpinCall(op, a, c2) ==
    /\ kind = "SpinBox"
    /\ RetC(op, a, NoNum)
    /\ config' = c2
    /\ UNCHANGED rect
    /\ UNCHANGED lifeVars

\* SpinBox(master, **a) in place of the widget: __init__ stores the four
\* arguments as given
SpinConstruct(a) ==
    SpinCall("SpinBox", a, BaseInit @@ a)

Increment == SpinCall("increment", <<>>, SpinBoxIncrement(config))
Decrement == SpinCall("decrement", <<>>, SpinBoxDecrement(config))
SetValue(v) == SpinCall("set_value", [value |-> v], SpinBoxSetValue(config, v))
CommitText(t) ==
    SpinCall("commit_text", [text |-> t], SpinBoxCommitText(config, t))

----------------------------------------------------------------------------
(* Progressbar *)

\* bookkeeping of a call on a widget whose attributes are config
RetW(op, a, res) ==
    /\ lastOp' = op
    /\ args' = a
    /\ raised' = "none"
    /\ called' = "none"
    /\ pre' = Snapshot
    /\ result' = res
    /\ prev' = [op |-> lastOp, args |-> args]
    /\ UNCHANGED <<master, opt, grid_size, nops>>
    /\ UNCHANGED <<themeVars, regVars, radioVars>>

\* max(lo, min(v, hi))
Clamp(v, lo, hi) == Max(lo, Min(v, hi))

\* the constructor arguments of a Progressbar
ProgressArgs ==
    {[value |-> v, minimum |-> lo, maximum |-> hi] :
        v \in {10, 50}, lo \in {0, 10}, hi \in {100, 90}}

\* the default constructor arguments
ProgressDefaults == [value |-> 0, minimum |-> 0, maximum |-> 100]

\* Progressbar.__init__: _minimum, _maximum and _value
ProgressbarInit(a) ==
    LET lo == Min(0, a.minimum)
        hi == Max(1, a.maximum)
    IN [minimum |-> lo, maximum |-> hi, value |-> Clamp(a.value, lo, hi)]

\* Progressbar.set
ProgressbarSet(c, v) ==
    [c EXCEPT !.value = Clamp(v, c.minimum, c.maximum)]

\* Progressbar.step: the method has no body
ProgressbarStep(c, n) == c

\* Progressbar.set_max
ProgressbarSetMax(c, hi) ==
    [c EXCEPT !.maximum = hi, !.value = Clamp(c.value, c.minimum, hi)]

\* Progressbar.set_min
ProgressbarSetMin(c, lo) ==
    [c EXCEPT !.minimum = lo, !.value = Clamp(c.value, lo, c.maximum)]

\* a Progressbar call that leaves the attributes c2 and returns res
ProgressCall(op, a, c2, res) ==
    /\ kind = "Progressbar"
    /\ RetW(op, a, res)
    /\ config' = c2
    /\ UNCHANGED rect
    /\ UNCHANGED lifeVars

\* Progressbar(master, **a) in place of the widget
ProgressConstruct(a) ==
    ProgressCall("Progressbar", a, ProgressbarInit(a), NoNum)

ProgressSet(v) ==
    ProgressCall("set", [value |-> v], ProgressbarSet(config, v), NoNum)
ProgressGet == ProgressCall("get", <<>>, config, Num(config.value))
ProgressStep(n) ==
    ProgressCall("step", [value |-> n], ProgressbarStep(config, n), NoNum)
ProgressSetMax(hi) ==
    ProgressCall("set_max", [maximum |-> hi], ProgressbarSetMax(config, hi),
                 NoNum)
ProgressSetMin(lo) ==
    ProgressCall("set_min", [minimum |-> lo], ProgressbarSetMin(config, lo),
                 NoNum)

----------------------------------------------------------------------------
(* TextBox: text, cursor and selection.  A text is a sequence of characters,
   a selection is <<start, end>> or <<>> for None. *)

\* the longest text explored, and the farthest the cursor is followed
\* outside 0..MaxText
MaxText == 2

\* a slice index of Python on a sequence of length n: negative indices count
\* from the end, and the result is clipped to 0..n
SliceIndex(i, n) == IF i < 0 THEN Max(i + n, 0) ELSE Min(i, n)

\* s[:i]
SliceTo(s, i) == SubSeq(s, 1, SliceIndex(i, Len(s)))

\* s[i:]
SliceFrom(s, i) == SubSeq(s, SliceIndex(i, Len(s)) + 1, Len(s))

\* self.selection and self.selection[0] != self.selection[1]
HasSelection(c) == c.selection # NoNum /\ c.selection[1] # c.selection[2]

\* TextBox._delete_selection
DeleteSelection(c) ==
    LET start == Min(c.selection[1], c.selection[2])
        end == Max(c.selection[1], c.selection[2])
    IN [c EXCEPT !.text = SliceTo(c.text, start) \o SliceFrom(c.text, end),
                 !.cursor_pos = start,
                 !.selection = NoNum]

\* TextBox._insert_text
InsertText(c, s) ==
    LET d == IF HasSelection(c) THEN DeleteSelection(c) ELSE c
    IN [d EXCEPT !.text = SliceTo(d.text, d.cursor_pos) \o s
                          \o SliceFrom(d.text, d.cursor_pos),
                 !.cursor_pos = d.cursor_pos + Len(s),
                 !.selection = NoNum]

\* the selection after a cursor key moved the cursor from `from` to cp
MoveSelection(c, shift, from, cp) ==
    IF shift
    THEN IF c.selection = NoNum THEN <<from, cp>> ELSE <<c.selection[1], cp>>
    ELSE NoNum

\* TextBox._handle_event_ of a KEYDOWN on a focused TextBox; shift is
\* pygame.key.get_mods() & KMOD_SHIFT
TextBoxKey(c, ev) ==
    CASE ev.key = "BACKSPACE" ->
            IF HasSelection(c) THEN DeleteSelection(c)
            ELSE IF c.cursor_pos > 0
            THEN [c EXCEPT !.text = SliceTo(c.text, c.cursor_pos - 1)
                                    \o SliceFrom(c.text, c.cursor_pos),
                           !.cursor_pos = c.cursor_pos - 1]
            ELSE c
      [] ev.key = "DELETE" ->
            IF HasSelection(c) THEN DeleteSelection(c)
            ELSE IF c.cursor_pos < Len(c.text)
            THEN [c EXCEPT !.text = SliceTo(c.text, c.cursor_pos)
                                    \o SliceFrom(c.text, c.cursor_pos + 1)]
            ELSE c
      [] ev.key = "LEFT" ->
            LET cp == IF c.cursor_pos > 0 THEN c.cursor_pos - 1
                      ELSE c.cursor_pos
            IN [c EXCEPT !.cursor_pos = cp,
                         !.selection = MoveSelection(c, ev.shift, cp + 1, cp)]
      [] ev.key = "RIGHT" ->
            LET cp == IF c.cursor_pos < Len(c.text) THEN c.cursor_pos + 1
                      ELSE c.cursor_pos
            IN [c EXCEPT !.cursor_pos = cp,
                         !.selection = MoveSelection(c, ev.shift, cp - 1, cp)]
      [] ev.key = "HOME" -> [c EXCEPT !.cursor_pos = 0, !.selection = NoNum]
      [] ev.key = "END" ->
            [c EXCEPT !.cursor_pos = Len(c.text), !.selection = NoNum]
      [] ev.key = "RETURN" ->
            IF c.multiline THEN InsertText(c, <<"\n">>) ELSE c
      [] OTHER ->
            IF c.max_length = NoNum \/ Len(c.text) < Val(c.max_length)
            THEN InsertText(c, <<ev.key>>) ELSE c

\* the setting half of TextBox.configure for text: the cursor is pulled
\* back into the new text
TextBoxSetText(c, t) ==
    [c EXCEPT !.text = t, !.cursor_pos = Min(c.cursor_pos, Len(t))]

\* the key events: the named keys, with and without shift, and a character
TextKeys ==
    {[key |-> k, shift |-> FALSE] :
        k \in {"BACKSPACE", "DELETE", "HOME", "END", "RETURN", "a"}}
    \cup {[key |-> k, shift |-> sh] : k \in {"LEFT", "RIGHT"}, sh \in BOOLEAN}

\* a TextBox call that leaves the attributes c2 and the focus f
TextCall(op, a, c2, f) ==
    /\ kind = "TextBox"
    /\ Len(c2.text) <= MaxText
    /\ c2.cursor_pos \in -MaxText..(2 * MaxText)
    /\ RetW(op, a, NoNum)
    /\ config' = c2
    /\ focused' = f
    /\ UNCHANGED rect
    /\ UNCHANGED <<kind, state, disabled, visible, hover, clicked,
                   cursor_timer, cursor_visible>>

\* a left MOUSEBUTTONDOWN inside rect, at the x of cursor position cp
TextClick(cp) ==
    /\ cp \in 0..Len(config.text)
    /\ TextCall("handle", [type |-> "MOUSEBUTTONDOWN", inside |-> TRUE],
                [config EXCEPT !.cursor_pos = cp, !.selection = NoNum], TRUE)

\* a left MOUSEBUTTONDOWN outside rect
TextClickOutside ==
    TextCall("handle", [type |-> "MOUSEBUTTONDOWN", inside |-> FALSE],
             [config EXCEPT !.selection = NoNum], FALSE)

\* a KEYDOWN: an unfocused TextBox ignores it
TextKeyDown(ev) ==
    TextCall("handle", [type |-> "KEYDOWN", key |-> ev.key,
                        shift |-> ev.shift],
             IF focused THEN TextBoxKey(config, ev) ELSE config, focused)

\* textbox.configure(text=t)
TextConfigure(t) ==
    TextCall("configure_set", [key |-> "text", value |-> t],
             TextBoxSetText(config, t), focused)

----------------------------------------------------------------------------
(* Construction: the parent reference *)

\* the rectangles a master is or has
MasterRects ==
    {[x |-> x, y |-> y, w |-> w, h |-> MasterH] :
        x \in {0, PosX}, y \in {0, PosY}, w \in {MasterW, WidgetW}}

\* the masters a widget is constructed on: a pygame.Rect, a pygame.Surface
\* (surfaces are told apart by id), a widget with its surface and rect, or
\* None
MasterArgs ==
    {[type |-> "Rect", rect |-> r, surface |-> 0] : r \in MasterRects}
    \cup {[type |-> "Surface", rect |-> [r EXCEPT !.x = 0, !.y = 0],
           surface |-> i] : r \in MasterRects, i \in {1, 2}}
    \cup {[type |-> "Widget", rect |-> r, surface |-> i] :
             r \in MasterRects, i \in {1, 2}}
    \cup {[type |-> "None", rect |-> [x |-> 0, y |-> 0, w |-> 0, h |-> 0],
           surface |-> 0]}

\* _Widget.__init__, "Master Surface and Rect": an if, then an if / elif /
\* else chain that assigns both attributes again
ResolveMaster(m) ==
    LET first == IF m.type = "Rect"
                 THEN [master |-> NoNum, master_rect |-> Num(m.rect)]
                 ELSE [master |-> NoNum, master_rect |-> NoNum]
    IN CASE m.type = "Surface" ->
               [master |-> Num(m.surface), master_rect |-> Num(m.rect)]
         [] m.type = "Widget" ->
               [master |-> Num(m.surface), master_rect |-> Num(m.rect)]
         [] OTHER -> [first EXCEPT !.master = NoNum, !.master_rect = NoNum]

\* a widget constructed on the master m; result holds _master and
\* _master_rect of the new widget
ConstructOn(m) ==
    /\ RetW("construct_on", m, ResolveMaster(m))
    /\ UNCHANGED <<config, rect>>
    /\ UNCHANGED lifeVars

----------------------------------------------------------------------------
(* ComboBox: the dropdown *)

\* the items of the ComboBox, told apart by number
ComboItems == <<1, 2, 3>>

\* ComboBox._handle_event_ of a left MOUSEBUTTONDOWN at p, for a widget with
\* rect r: the attributes it leaves, and whether on_select was called.  The
\* menu rectangle is in the coordinates of rect, the point tested against it
\* is relative to rect's corner.
ComboBoxClick(c, r, p) ==
    LET menu_rect == [x |-> r.x, y |-> r.y + r.h, w |-> r.w,
                      h |-> r.h * Len(c.items)]
        idx == FloorDiv(p[2] - r.y - r.h, r.h)
    IN IF CollidePoint(r, p)
       THEN [c EXCEPT !.dropdown_open = ~c.dropdown_open]
       ELSE IF c.dropdown_open
       THEN IF CollidePoint(menu_rect, <<p[1] - r.x, p[2] - r.y>>)
            THEN IF 0 <= idx /\ idx < Len(c.items)
                 THEN [c EXCEPT !.selected = idx, !.text = c.items[idx + 1],
                                !.dropdown_open = FALSE]
                 ELSE c
            ELSE [c EXCEPT !.dropdown_open = FALSE]
       ELSE c

\* the call reached on_select(idx, text)
ComboBoxSelects(c, r, p) ==
    /\ ~CollidePoint(r, p)
    /\ c.dropdown_open
    /\ CollidePoint([x |-> r.x, y |-> r.y + r.h, w |-> r.w,
                     h |-> r.h * Len(c.items)], <<p[1] - r.x, p[2] - r.y>>)
    /\ 0 <= FloorDiv(p[2] - r.y - r.h, r.h)
    /\ FloorDiv(p[2] - r.y - r.h, r.h) < Len(c.items)

\* the points clicked: inside the box, inside each row of the menu near its
\* corners, and beside and below the menu
ComboPoints ==
    {<<rect.x + dx, rect.y + dy>> :
        dx \in {1, rect.w - 1, rect.w + 1},
        dy \in {1} \cup {rect.h * i + d : i \in 1..(Len(ComboItems) + 1),
                                          d \in {1, rect.h - 1}}}

\* combobox.handle(event) for a left MOUSEBUTTONDOWN at p
ComboClick(p) ==
    /\ kind = "ComboBox"
    /\ config' = ComboBoxClick(config, rect, p)
    /\ lastOp' = "handle"
    /\ args' = [type |-> "MOUSEBUTTONDOWN", pos |-> p]
    /\ raised' = "none"
    /\ called' = IF ComboBoxSelects(config, rect, p) THEN "on_select"
                 ELSE "none"
    /\ pre' = Snapshot
    /\ result' = NoNum
    /\ prev' = [op |-> lastOp, args |-> args]
    /\ UNCHANGED <<lifeVars, geomVars, themeVars, regVars, radioVars>>

----------------------------------------------------------------------------
(* The theme: ThemeManager and the widgets that read it.  A theme is a
   dictionary of dictionaries; colours, font names and sizes are numbers. *)

\* the empty dictionary
EmptyDict == [k \in {} |-> 0]

\* dict.get(k, default)
Get(d, k, default) == IF k \in DOMAIN d THEN d[k] ELSE default

\* d[p[1]][p[2]]... can be read without a KeyError
RECURSIVE HasPath(_, _)
HasPath(d, p) ==
    \/ p = <<>>
    \/ /\ Head(p) \in DOMAIN d
       /\ HasPath(d[Head(p)], Tail(p))

\* the font entries of a theme, under both spellings the widgets read
Fonts(c) == [font |-> [family |-> c, size |-> c], Font |-> [family |-> c]]

\* a theme with an entry for every class, state and attribute
FullTheme(c) ==
    Fonts(c) @@
    [Button |-> [background |-> c, border_color |-> c],
     Checkbox |-> [normal |-> [background |-> c, bordercolor |-> c],
                   hovered |-> [background |-> c + 2, bordercolor |-> c]],
     Label |-> [border_radius |-> c, borderwidth |-> c, bordercolor |-> c,
                normal |-> [foreground |-> c, background |-> c],
                hovered |-> [foreground |-> c, background |-> c]],
     Floodguage |-> [fill |-> c, background |-> c, bordercolor |-> c]]

\* a theme with no entry for any widget class
NoClassTheme == Fonts(1)

\* a theme whose class entries lack states and attributes
NoStateTheme ==
    Fonts(1) @@
    [Button |-> EmptyDict,
     Checkbox |-> [hovered |-> [background |-> 1]],
     Label |-> [border_radius |-> 1, borderwidth |-> 1, bordercolor |-> 1],
     Floodguage |-> [fill |-> 1]]

\* the theme files: what open() and json.load() make of each name
FileSystem ==
    [blue |-> [status |-> "ok", content |-> FullTheme(1)],
     green |-> [status |-> "ok", content |-> FullTheme(2)],
     bare |-> [status |-> "ok", content |-> NoClassTheme],
     partial |-> [status |-> "ok", content |-> NoStateTheme],
     missing |-> [status |-> "missing", content |-> EmptyDict],
     locked |-> [status |-> "unreadable", content |-> EmptyDict],
     broken |-> [status |-> "invalid", content |-> EmptyDict]]

Files == DOMAIN FileSystem

\* the exception open() or json.load() raises for the file f
LoadError(f) ==
    CASE FileSystem[f].status = "missing" -> "FileNotFoundError"
      [] FileSystem[f].status = "unreadable" -> "PermissionError"
      [] FileSystem[f].status = "invalid" -> "JSONDecodeError"
      [] OTHER -> "none"

\* a load that empties the theme before it reads the file
ThemeAfterLoadCleared(t, f) ==
    IF LoadError(f) = "none" THEN FileSystem[f].content ELSE EmptyDict

\* cls.theme after load_theme(f): assigned only once json.load has returned
ThemeAfterLoad(t, f) ==
    IF LoadError(f) = "none" THEN FileSystem[f].content ELSE t

InitTheme ==
    /\ theme = EmptyDict
    /\ loaded = None
    /\ wkind = None
    /\ style = EmptyDict
    /\ built = EmptyDict
    /\ painted = EmptyDict

\* bookkeeping of a theme or themed-widget call
RetT(op, a, exc) ==
    /\ lastOp' = op
    /\ args' = a
    /\ raised' = exc
    /\ called' = "none"
    /\ pre' = Snapshot
    /\ UNCHANGED <<lifeVars, geomVars, confVars, regVars, radioVars>>

\* ThemeManager.load_theme(f)
LoadTheme(f) ==
    /\ theme' = ThemeAfterLoad(theme, f)
    /\ loaded' = IF LoadError(f) = "none" THEN f ELSE loaded
    /\ RetT("load_theme", [file |-> f], LoadError(f))
    /\ UNCHANGED <<wkind, style, built, painted>>

\* the classes whose constructor or painter reads ThemeManager.theme
ThemedKinds == {"Button", "CheckButton", "Label", "Floodgauge"}

\* the entries a constructor reads with [...], which raises KeyError
ConstructNeeds(cls) ==
    CASE cls = "Button" -> {<<"Font", "family">>, <<"font", "size">>}
      [] cls = "CheckButton" -> {<<"font", "family">>, <<"font", "size">>}
      [] cls = "Label" ->
            {<<"font", "family">>, <<"font", "size">>,
             <<"Label", "border_radius">>, <<"Label", "borderwidth">>,
             <<"Label", "normal", "foreground">>,
             <<"Label", "normal", "background">>,
             <<"Label", "hovered", "foreground">>,
             <<"Label", "hovered", "background">>,
             <<"Label", "bordercolor">>}
      [] cls = "Floodgauge" -> {}

\* Button's custom_theme, which overrides the theme's Button entry
CustomTheme ==
    [background |-> 10, text_color |-> 11, hover_color |-> 12,
     select_color |-> 12, disable_color |-> 12, border_color |-> 12]

\* the values a constructor copies out of the theme t
ConstructStyle(cls, t) ==
    CASE cls = "Button" -> CustomTheme @@ Get(t, "Button", EmptyDict)
      [] cls = "CheckButton" -> [font |-> t.font]
      [] cls = "Label" ->
            [border_radius |-> t.Label.border_radius,
             borderwidth |-> t.Label.borderwidth,
             bordercolor |-> t.Label.bordercolor,
             foreground |-> t.Label.normal.foreground,
             background |-> t.Label.normal.background]
      [] cls = "Floodgauge" ->
            LET th == Get(t, "Floodguage", EmptyDict)
            IN [bar_color |-> Get(th, "fill", 0),
                background |-> Get(th, "background", 0),
                border_color |-> Get(th, "bordercolor", 0),
                border_radius |-> Get(th, "border_radius", 12),
                borderwidth |-> Get(th, "borderwidth", 0)]

\* cls(master): a new widget of class cls replaces the one constructed before
Construct(cls) ==
    /\ IF \A p \in ConstructNeeds(cls) : HasPath(theme, p)
       THEN /\ wkind' = cls
            /\ style' = ConstructStyle(cls, theme)
            /\ built' = theme
            /\ painted' = EmptyDict
            /\ RetT("construct", [cls |-> cls], "none")
       ELSE /\ UNCHANGED <<wkind, style, built, painted>>
            /\ RetT("construct", [cls |-> cls], "KeyError")
    /\ UNCHANGED <<theme, loaded>>

\* the interaction states a widget is painted in
PaintStates == {"normal", "hovered", "disabled", "selected"}

\* the style attributes _perform_draw_ uses for a widget of class cls that
\* holds the copied values st, with t the theme at the time of the draw
PaintWith(cls, st, t, ist) ==
    CASE cls = "Button" ->
            [background |-> IF ist \in {"hovered", "disabled"}
                            THEN st.hover_color ELSE st.background,
             foreground |-> st.text_color,
             bordercolor |-> st.border_color]
      [] cls = "CheckButton" ->
            LET th == Get(t, "Checkbox", EmptyDict)
                box == Get(th, ist, Get(th, "normal", EmptyDict))
            IN [border_radius |-> Get(box, "border_radius", 5),
                borderwidth |-> Get(box, "borderwidth", 2),
                bordercolor |-> Get(box, "bordercolor", 0),
                background |-> Get(box, "background", 0)]
      [] cls = "Label" ->
            [border_radius |-> st.border_radius,
             borderwidth |-> st.borderwidth,
             bordercolor |-> st.bordercolor]
      [] cls = "Floodgauge" -> st

\* widget.draw() of the themed widget, in the interaction state given
ThemedDraw(ist) ==
    /\ wkind # None
    /\ painted' = PaintWith(wkind, style, theme, ist)
    /\ RetT("themed_draw", [state |-> ist], "none")
    /\ UNCHANGED <<theme, loaded, wkind, style, built>>

----------------------------------------------------------------------------
(* The widget manager: BaseManager *)

DEFAULT_LAYER == 0
OVERLAY_LAYER == 10

\* the layers widgets are registered to
Layers == {DEFAULT_LAYER, 1, OVERLAY_LAYER}

\* the widgets that are registered with the manager
Roots == {"a", "b"}

\* widget.children: a holds c and d, c holds e
WidgetChildren ==
    [a |-> <<"c", "d">>, b |-> <<>>, c |-> <<"e">>, d |-> <<>>, e |-> <<>>]

Widgets == DOMAIN WidgetChildren

\* the most registrations a manager holds
MaxRegs == 3

\* d[k] = v
Put(d, k, v) == [x \in DOMAIN d \cup {k} |-> IF x = k THEN v ELSE d[x]]

\* widget in children
In(w, s) == \E i \in 1..Len(s) : s[i] = w

\* children.remove(widget): the first occurrence goes
RemoveFirst(s, w) ==
    IF ~In(w, s) THEN s
    ELSE LET i == CHOOSE j \in 1..Len(s) :
                      s[j] = w /\ \A k \in 1..(j - 1) : s[k] # w
         IN SubSeq(s, 1, i - 1) \o SubSeq(s, i + 1, Len(s))

\* reversed(children)
Reverse(s) == [i \in 1..Len(s) |-> s[Len(s) + 1 - i]]

\* sorted(keys, reverse=True)
RECURSIVE SortedReverse(_)
SortedReverse(S) ==
    IF S = {} THEN <<>>
    ELSE LET m == CHOOSE x \in S : \A y \in S : y <= x
         IN <<m>> \o SortedReverse(S \ {m})

\* BaseManager.is_registered
is_registered(ch, w) == \E l \in DOMAIN ch : In(w, ch[l])

\* number of entries in all layers
RECURSIVE Registrations(_, _)
Registrations(ch, ls) ==
    IF ls = {} THEN 0
    ELSE LET l == CHOOSE x \in ls : TRUE
         IN Len(ch[l]) + Registrations(ch, ls \ {l})

InitReg ==
    /\ children = EmptyDict
    /\ parent = [w \in Roots |-> None]
    /\ walked = <<>>

\* bookkeeping of a manager call
RetM(op, a, exc) ==
    /\ lastOp' = op
    /\ args' = a
    /\ raised' = exc
    /\ called' = "none"
    /\ pre' = Snapshot
    /\ UNCHANGED <<lifeVars, geomVars, confVars, themeVars, radioVars>>

\* manager.register(w, layer=layer)
Register(w, layer) ==
    /\ Registrations(children, DOMAIN children) < MaxRegs
    /\ parent' = [parent EXCEPT ![w] = "manager"]
    /\ children' = Put(children, layer, Append(Get(children, layer, <<>>), w))
    /\ RetM("register", [widget |-> w, layer |-> layer], "none")
    /\ UNCHANGED walked

\* manager.unregister(w)
Unregister(w) ==
    /\ children' = [l \in DOMAIN children |-> RemoveFirst(children[l], w)]
    /\ parent' = IF is_registered(children, w)
                 THEN [parent EXCEPT ![w] = None] ELSE parent
    /\ RetM("unregister", [widget |-> w], "none")
    /\ UNCHANGED walked

\* manager.clear()
Clear ==
    /\ children' = [l \in DOMAIN children |-> <<>>]
    /\ parent' = [w \in Roots |->
                    IF is_registered(children, w) THEN None ELSE parent[w]]
    /\ RetM("clear", <<>>, "none")
    /\ UNCHANGED walked

\* list(manager.walk_widgets(root=root, layer=layer)): root is a widget or
\* None, layer is <<l>> or <<>> for None
RECURSIVE WalkWidgets(_, _, _)
RECURSIVE WalkChildren(_, _)
RECURSIVE WalkLayers(_, _, _)
WalkChildren(ch, kids) ==
    IF kids = <<>> THEN <<>>
    ELSE WalkWidgets(ch, Head(kids), Num(DEFAULT_LAYER))
         \o <<Head(kids)>> \o WalkChildren(ch, Tail(kids))

WalkLayers(ch, root, ls) ==
    IF ls = <<>> THEN <<>>
    ELSE WalkChildren(ch, Reverse(IF root # None THEN WidgetChildren[root]
                                  ELSE Get(ch, Head(ls), <<>>)))
         \o WalkLayers(ch, root, Tail(ls))

WalkWidgets(ch, root, layer) ==
    WalkLayers(ch, root, IF layer = NoNum THEN SortedReverse(DOMAIN ch)
                         ELSE <<Val(layer)>>)

\* the arguments walk_widgets is called with
WalkRoots == {None} \cup Widgets
WalkLayerArgs == {NoNum} \cup {Num(l) : l \in Layers}

\* walk_widgets, consumed to its end; children is a defaultdict, so reading
\* the list of a layer that has none creates it
Walk(root, layer) ==
    /\ walked' = WalkWidgets(children, root, layer)
    /\ children' = IF root = None /\ layer # NoNum
                      /\ Val(layer) \notin DOMAIN children
                   THEN Put(children, Val(layer), <<>>) ELSE children
    /\ RetM("walk_widgets", [root |-> root, layer |-> layer], "none")
    /\ UNCHANGED parent

----------------------------------------------------------------------------
(* RadioButton groups *)

\* the radio buttons that can be constructed
Radios == {"rb1", "rb2", "rb3"}

\* the group names; None is no group
Groups == {"g1", "g2"}

InitRadio ==
    /\ checked = [rb \in Radios |-> FALSE]
    /\ group = [rb \in Radios |-> None]
    /\ RADIO_GROUPS = EmptyDict
    /\ made = {}

\* bookkeeping of a RadioButton call
RetR(op, a) ==
    /\ lastOp' = op
    /\ args' = a
    /\ raised' = "none"
    /\ called' = "none"
    /\ pre' = Snapshot
    /\ UNCHANGED <<lifeVars, geomVars, confVars, themeVars, regVars>>

\* RadioButton(master, group=g, checked=c)
ConstructRadio(rb, g, c) ==
    /\ rb \notin made
    /\ made' = made \cup {rb}
    /\ checked' = [checked EXCEPT ![rb] = c]
    /\ group' = [group EXCEPT ![rb] = g]
    /\ RADIO_GROUPS' =
          IF g # None
          THEN Put(RADIO_GROUPS, g, Append(Get(RADIO_GROUPS, g, <<>>), rb))
          ELSE RADIO_GROUPS
    /\ RetR("RadioButton", [rb |-> rb, group |-> g, checked |-> c])

\* checked of every button after rb.select()
SelectChecked(ck, grp, reg, rb) ==
    [x \in Radios |->
        IF x = rb THEN TRUE
        ELSE IF grp[rb] # None /\ In(x, Get(reg, grp[rb], <<>>)) THEN FALSE
        ELSE ck[x]]

\* checked of every button after rb.deselect()
DeselectChecked(ck, rb) == [ck EXCEPT ![rb] = FALSE]

\* rb.select()
Select(rb) ==
    /\ rb \in made
    /\ checked' = SelectChecked(checked, group, RADIO_GROUPS, rb)
    /\ RetR("select", [rb |-> rb])
    /\ UNCHANGED <<group, RADIO_GROUPS, made>>

\* rb.deselect()
Deselect(rb) ==
    /\ rb \in made
    /\ checked' = DeselectChecked(checked, rb)
    /\ RetR("deselect", [rb |-> rb])
    /\ UNCHANGED <<group, RADIO_GROUPS, made>>

\* rb._handle_event_ of a left MOUSEBUTTONDOWN, inside rb's rect or not
Click(rb, inside) ==
    /\ rb \in made
    /\ checked' = IF inside /\ ~checked[rb]
                  THEN SelectChecked(checked, group, RADIO_GROUPS, rb)
                  ELSE checked
    /\ RetR("click", [rb |-> rb, inside |-> inside])
    /\ UNCHANGED <<group, RADIO_GROUPS, made>>

\* _RADIO_GROUPS after rb.configure(group=g)
MoveGroup(reg, old, g, rb) ==
    LET left == IF old # None /\ In(rb, Get(reg, old, <<>>))
                THEN Put(reg, old, RemoveFirst(reg[old], rb)) ELSE reg
    IN IF g # None THEN Put(left, g, Append(Get(left, g, <<>>), rb))
       ELSE left

\* rb.configure(checked=ck, group=g); <<>> is a keyword that is not given
ConfigureRadio(rb, ck, g) ==
    /\ rb \in made
    /\ ck # NoNum \/ g # NoNum
    /\ checked' = IF ck = NoNum THEN checked
                  ELSE IF Val(ck)
                  THEN SelectChecked(checked, group, RADIO_GROUPS, rb)
                  ELSE DeselectChecked(checked, rb)
    /\ group' = IF g = NoNum THEN group ELSE [group EXCEPT ![rb] = Val(g)]
    /\ RADIO_GROUPS' = IF g = NoNum THEN RADIO_GROUPS
                       ELSE MoveGroup(RADIO_GROUPS, group[rb], Val(g), rb)
    /\ RetR("configure", [rb |-> rb, checked |-> ck, group |-> g])
    /\ UNCHANGED made

----------------------------------------------------------------------------
(* Specifications *)

Init ==
    /\ InitLife
    /\ InitGeom
    /\ InitConf
    /\ InitTheme
    /\ InitReg
    /\ InitRadio
    /\ InitHist

\* the lifecycle of a widget: its flags and its three per-frame entry points
Next ==
    \/ Hide
    \/ Show
    \/ Enable
    \/ Disable
    \/ Focus
    \/ Unfocus
    \/ \E v \in StateNames : SetState(v)
    \/ Draw
    \/ \E ev \in Events : Handle(ev)
    \/ \E d \in DeltaMs : Update(d)

Spec == Init /\ [][Next]_vars

\* the geometry managers of a widget
GeomNext ==
    \/ \E name \in PropNames : \E v \in PropValues(name) : SetProperty(name, v)
    \/ \E kw \in PackCalls : Pack(kw)
    \/ \E kw \in GridCalls : Grid(kw)
    \/ \E kw \in PlaceCalls : Place(kw)
    \/ \E cls \in ClassNames : \E g \in GridSizes : SetGridSize(cls, g)
    \/ \E cls \in ClassNames : ResetGridSize(cls)

\* geometry is explored on the test suite's concrete widget class
GeomInit == Init /\ kind = "DummyWidget"

GeomSpec == GeomInit /\ [][GeomNext]_vars

\* the three manager calls alone: no property assignment, no change of
\* the grid dimensions
MgrNext ==
    \/ \E kw \in PackCalls : Pack(kw)
    \/ \E kw \in GridCalls : Grid(kw)
    \/ \E kw \in PlaceCalls : Place(kw)

MgrSpec == GeomInit /\ [][MgrNext]_vars

\* the per-frame and flag operations of a widget that a manager has
\* positioned and configure() has resized
CacheNext ==
    \/ Hide
    \/ Show
    \/ Enable
    \/ Disable
    \/ Focus
    \/ Unfocus
    \/ Draw
    \/ \E ev \in Events : Handle(ev)
    \/ \E d \in DeltaMs : Update(d)
    \/ \E kw \in {[PlaceDefaults EXCEPT !.x = PosX, !.y = PosY]} : Place(kw)
    \/ \E kw \in {[GridDefaults EXCEPT !.row = 1, !.column = 2]} : Grid(kw)
    \/ \E k \in {"width", "height"} : ConfigureSet(k, Num(MasterW))
    \/ \E k \in {"width"} : ConfigureGet(k)

CacheInit == Init /\ master = [w |-> MasterW, h |-> MasterH]

CacheSpec == CacheInit /\ [][CacheNext]_vars

\* a DummyWidget on the first parent, no theme loaded, an empty manager and
\* no radio button
FreshInit == GeomInit /\ master = [w |-> MasterW, h |-> MasterH]

\* the theme: loading, constructing themed widgets and painting them
ThemeNext ==
    \/ \E f \in Files : LoadTheme(f)
    \/ \E cls \in ThemedKinds : Construct(cls)
    \/ \E st \in PaintStates : ThemedDraw(st)

ThemeSpec == FreshInit /\ [][ThemeNext]_vars

\* the widget manager: registration and walking
RegNext ==
    \/ \E w \in Roots, l \in Layers : Register(w, l)
    \/ \E w \in Roots : Unregister(w)
    \/ Clear
    \/ \E r \in WalkRoots, l \in WalkLayerArgs : Walk(r, l)

RegSpec == FreshInit /\ [][RegNext]_vars

\* radio buttons: construction, clicks, select, deselect and configure
RadioNext ==
    \/ \E rb \in Radios, g \in Groups \cup {None}, c \in BOOLEAN :
          ConstructRadio(rb, g, c)
    \/ \E rb \in Radios : Select(rb)
    \/ \E rb \in Radios : Deselect(rb)
    \/ \E rb \in Radios, inside \in BOOLEAN : Click(rb, inside)
    \/ \E rb \in Radios, ck \in {NoNum, Num(TRUE), Num(FALSE)},
          g \in {NoNum} \cup {Num(x) : x \in Groups \cup {None}} :
          ConfigureRadio(rb, ck, g)

RadioSpec == FreshInit /\ [][RadioNext]_vars

\* a Button driven by enable, disable and the per-frame calls alone
ButtonNext ==
    \/ Enable
    \/ Disable
    \/ \E ev \in Events : Handle(ev)
    \/ \E d \in DeltaMs : Update(d)

ButtonInit == Init /\ kind = "Button"

ButtonSpec == ButtonInit /\ [][ButtonNext]_vars

\* options assigned, then pack() and pack() once more
RepackNext ==
    \/ \E name \in PropNames : \E v \in PropValues(name) : SetProperty(name, v)
    \/ \E kw \in {PackDefaults} : Pack(kw)
    \/ \E kw \in {PackDefaults} : PackAgain(kw)

RepackSpec == GeomInit /\ [][RepackNext]_vars

\* the configure() accessor of a widget
ConfNext ==
    \/ \E k \in ConfKeys : ConfigureGet(k)
    \/ \E k \in ConfKeys : \E v \in ConfValues(k) : ConfigureSet(k, v)
    \/ \E k \in ConfKeys : GetItem(k)
    \/ \E k \in ConfKeys : \E v \in ConfValues(k) : SetItem(k, v)
    \/ \E k \in {"width", "height"} : \E v \in ConfValues(k) : SetSize(k, v)

\* a freshly constructed widget of each class on one parent
ConfInit ==
    /\ kind \in ConfKinds
    /\ state = "normal" /\ disabled = FALSE /\ focused = FALSE
    /\ visible = TRUE /\ hover = FALSE /\ clicked = FALSE
    /\ cursor_timer = 0 /\ cursor_visible = TRUE
    /\ InitGeom /\ master = [w |-> MasterW, h |-> MasterH]
    /\ InitConf
    /\ InitTheme
    /\ InitReg
    /\ InitRadio
    /\ InitHist

ConfSpec == ConfInit /\ [][ConfNext]_vars

\* a SpinBox: construction, stepping, setting, text commits and configure
SpinNext ==
    \/ \E a \in SpinArgs : SpinConstruct(a)
    \/ Increment
    \/ Decrement
    \/ \E v \in {Num(1), Num(200)} : SetValue(v)
    \/ \E t \in {Num(1), Num(200), NoNum} : CommitText(t)
    \/ \E k \in {"value", "min_value", "max_value"} :
          \E v \in ConfValues(k) : ConfigureSet(k, v)

\* SpinBox(master): the default arguments
SpinInit == ConfInit /\ kind = "SpinBox"

SpinSpec == SpinInit /\ [][SpinNext]_vars

\* the values a Progressbar is set to and stepped by
ProgressValues == {5, 15, 55, 95}

\* a Progressbar: construction, set, get, step and the two bounds
ProgressNext ==
    \/ \E a \in ProgressArgs : ProgressConstruct(a)
    \/ \E v \in ProgressValues : ProgressSet(v)
    \/ ProgressGet
    \/ \E n \in ProgressValues : ProgressStep(n)
    \/ \E hi \in {80} : ProgressSetMax(hi)
    \/ \E lo \in {20} : ProgressSetMin(lo)

\* Progressbar(master): the default arguments
ProgressInit ==
    /\ kind = "Progressbar"
    /\ state = "normal" /\ disabled = FALSE /\ focused = FALSE
    /\ visible = TRUE /\ hover = FALSE /\ clicked = FALSE
    /\ cursor_timer = 0 /\ cursor_visible = TRUE
    /\ InitGeom /\ master = [w |-> MasterW, h |-> MasterH]
    /\ config = ProgressbarInit(ProgressDefaults)
    /\ result = NoNum
    /\ InitTheme
    /\ InitReg
    /\ InitRadio
    /\ InitHist

ProgressSpec == ProgressInit /\ [][ProgressNext]_vars

\* a TextBox: clicks, keys and configure(text=...)
TextNext ==
    \/ \E cp \in 0..MaxText : TextClick(cp)
    \/ TextClickOutside
    \/ \E ev \in TextKeys : TextKeyDown(ev)
    \/ \E t \in {<<>>, <<"a", "a">>} : TextConfigure(t)

\* TextBox(master, multiline=m, max_length=n) with the empty text
TextInit ==
    /\ kind = "TextBox"
    /\ state = "normal" /\ disabled = FALSE /\ focused = FALSE
    /\ visible = TRUE /\ hover = FALSE /\ clicked = FALSE
    /\ cursor_timer = 0 /\ cursor_visible = TRUE
    /\ InitGeom /\ master = [w |-> MasterW, h |-> MasterH]
    /\ \E m \in BOOLEAN, n \in {NoNum, Num(1)} :
          config = [text |-> <<>>, cursor_pos |-> 0, selection |-> NoNum,
                    multiline |-> m, max_length |-> n]
    /\ result = NoNum
    /\ InitTheme
    /\ InitReg
    /\ InitRadio
    /\ InitHist

TextSpec == TextInit /\ [][TextNext]_vars

\* widgets constructed on every kind of master
MasterNext == \E m \in MasterArgs : ConstructOn(m)

MasterSpec == FreshInit /\ [][MasterNext]_vars

\* a ComboBox and the clicks on it
ComboNext == \E p \in ComboPoints : ComboClick(p)

\* ComboBox(master, items=ComboItems), placed at the origin or elsewhere
ComboInit ==
    /\ kind = "ComboBox"
    /\ state = "normal" /\ disabled = FALSE /\ focused = FALSE
    /\ visible = TRUE /\ hover = FALSE /\ clicked = FALSE
    /\ cursor_timer = 0 /\ cursor_visible = TRUE
    /\ master = [w |-> MasterW, h |-> MasterH]
    /\ rect \in {[x |-> x, y |-> y, w |-> WidgetW, h |-> WidgetH] :
                    x \in {0, PosX}, y \in {0, PosY}}
    /\ opt = InitOpt
    /\ grid_size = [c \in ClassNames |->
                        IF c = "Grid" THEN <<DefaultGridSize>> ELSE NoAttr]
    /\ nops = 0
    /\ config = [items |-> ComboItems, selected |-> 0,
                 text |-> ComboItems[1], dropdown_open |-> FALSE]
    /\ result = NoNum
    /\ InitTheme
    /\ InitReg
    /\ InitRadio
    /\ InitHist

ComboSpec == ComboInit /\ [][ComboNext]_vars

----------------------------------------------------------------------------
(* The lifecycle claims, checked under Spec *)

\* the classes that inherit enable() and disable() from _Widget
InheritsEnable == kind # "Button"

\* C1: on a base widget, after disable() the state is "disabled" and the
\* disabled flag is set, and after enable() the state is "normal" and the
\* flag is clear, whatever the state name and the flags were before the call.
C1_DisableThenEnable ==
    InheritsEnable =>
        /\ (lastOp = "disable" => state = "disabled" /\ disabled = TRUE)
        /\ (lastOp = "enable" => state = "normal" /\ disabled = FALSE)

\* an enable() that follows a disable(): the widget was disabled before it
C1_Witness ==
    /\ kind = "_Widget"
    /\ lastOp = "enable"
    /\ pre.disabled /\ pre.state = "disabled"
    /\ state = "normal" /\ ~disabled

\* C2: a new widget is not focused, focus() leaves focused = True and
\* unfocus() leaves focused = False.
C2_FocusFollowsLastCall ==
    /\ (lastOp = "init" => focused = FALSE)
    /\ (lastOp = "focus" => focused = TRUE)
    /\ (lastOp = "unfocus" => focused = FALSE)

\* C3: draw() on a hidden widget reaches no paint callback and raises
\* nothing; _perform_draw_ is reached only on a visible widget.
C3_HiddenDrawIsNoOp ==
    /\ (lastOp = "draw" /\ ~pre.visible =>
            called = "none" /\ raised = "none")
    /\ (lastOp = "draw" /\ called = "_perform_draw_" => pre.visible)

C5_EnableShows ==
    lastOp = "enable" /\ ~pre.visible =>
        visible = TRUE /\ disabled = FALSE /\ state = "normal"

----------------------------------------------------------------------------
(* The geometry claims, checked under GeomSpec *)

\* C6: after pack(side=s) the widget's edge is at the parent's edge named s.
C6_PackEdge ==
    lastOp = "pack" /\ args.side # None =>
        CASE args.side = "top" -> rect.y = 0
          [] args.side = "bottom" -> rect.y = master.h - WidgetH
          [] args.side = "left" -> rect.x = 0
          [] args.side = "right" -> rect.x = master.w - WidgetW

\* the rectangle the last pack() call computes when its keyword k is 0
PackRectWithout(k) ==
    PackRect(pre.rect, PackStore(pre.opt, [args EXCEPT ![k] = 0]), master)

\* C7: pack(padx=p) leaves a rect 2*p wider than the same call with padx=0,
\* and likewise ipadx for the width and pady, ipady for the height.
C7_PaddingInflates ==
    lastOp = "pack" =>
        /\ rect.w = PackRectWithout("padx").w + 2 * args.padx
        /\ rect.w = PackRectWithout("ipadx").w + 2 * args.ipadx
        /\ rect.h = PackRectWithout("pady").h + 2 * args.pady
        /\ rect.h = PackRectWithout("ipady").h + 2 * args.ipady

\* C8: after pack(side=s, fill=f, padx=a, pady=b) pack_info() reports the
\* four values given and the defaults anchor "center", expand False,
\* ipadx 0, ipady 0.
C8_PackStoresOptions ==
    lastOp = "pack" /\ args.side # None /\ args.fill # None =>
        /\ pack_info.side = args.side
        /\ pack_info.fill = args.fill
        /\ pack_info.padx = Num(args.padx)
        /\ pack_info.pady = Num(args.pady)
        /\ pack_info.anchor = "center"
        /\ pack_info.expand = "False"
        /\ pack_info.ipadx = Num(0)
        /\ pack_info.ipady = Num(0)

\* C9: pack, grid or place called with a keyword it does not name raises,
\* and leaves rect and the stored options as they were.
C9_UnknownKeywordRejected ==
    lastOp \in {"pack", "grid", "place"} /\ args.extra =>
        raised # "none" /\ rect = pre.rect /\ opt = pre.opt

\* C10: the stored relx, rely, relwidth and relheight lie in [0, 1] in
\* every reachable state, and a place() call given one outside it raises.
C10_RelativeInRange ==
    /\ \A f \in {"relx", "rely", "relwidth", "relheight"} :
            0 <= Val(opt[f]) /\ Val(opt[f]) <= RelOne
    /\ (lastOp = "place" /\ args.relx > RelOne => raised = "ValueError")

\* the arguments of the last grid() call that lie outside their range
GridOutOfRange ==
    \/ args.row < 0
    \/ args.column < 0
    \/ args.rowspan < 1
    \/ args.columnspan < 1
    \/ \E k \in {"ipadx", "ipady", "padx", "pady"} : args[k] < 0

\* C11: a grid() call given an option outside its range raises a validation
\* error and leaves rect and the stored options as they were.
C11_GridRejectsOutOfRange ==
    lastOp = "grid" /\ GridOutOfRange =>
        raised = "ValueError" /\ rect = pre.rect /\ opt = pre.opt

\* the anchor tokens of the Anchor alias, which Pack's anchor setter tests
Anchors == {"nw", "n", "ne", "w", "center", "e", "sw", "s", "se"}

\* the tokens a token-valued property documents
Tokens(name) ==
    CASE name = "anchor" -> Anchors
      [] name = "side" -> Sides
      [] name = "fill" -> Fills

\* C12: assigning a token outside the documented set to anchor, side or fill
\* raises a validation error and leaves the stored option as it was.
C12_UnknownTokenRejected ==
    lastOp = "set" /\ args.name \in {"anchor", "side", "fill"}
                   /\ args.value \notin Tokens(args.name) =>
        raised = "ValueError" /\ opt = pre.opt

\* C13: place() given an absolute and a relative coordinate on one axis
\* leaves rect at the relative one, floor(W * relx) and floor(H * rely).
C13_RelativeOverwritesAbsolute ==
    lastOp = "place" =>
        /\ (args.x # 0 /\ args.relx # 0 =>
                rect.x = (master.w * args.relx) \div RelOne)
        /\ (args.y # 0 /\ args.rely # 0 =>
                rect.y = (master.h * args.rely) \div RelOne)

\* the last place() call was given absolute coordinates only
AbsoluteOnly ==
    /\ lastOp = "place"
    /\ args = [PlaceDefaults EXCEPT !.x = args.x, !.y = args.y]

\* C14: place(x=a, y=b) puts rect's top-left corner at (a, b) and leaves
\* rect's width and height at the widget's own width and height.
C14_AbsolutePlaceKeepsOwnSize ==
    AbsoluteOnly =>
        /\ rect.x = args.x /\ rect.y = args.y
        /\ rect.w = WidgetW /\ rect.h = WidgetH

\* the last grid() call was given in-range options and no padding
GridUnpadded ==
    /\ lastOp = "grid"
    /\ ~GridOutOfRange
    /\ \A k \in {"ipadx", "ipady", "padx", "pady"} : args[k] = 0

C16_GridSizeShared ==
    /\ (lastOp = "set_grid_size" /\ raised = "none" =>
            \A c \in ClassNames : get_grid_size(c) = args.size)
    /\ (lastOp = "reset_grid_size" =>
            \A c \in ClassNames : get_grid_size(c) = DefaultGridSize)
    /\ (GridUnpadded =>
            LET g == get_grid_size(kind)
            IN /\ rect.w = args.columnspan * (master.w \div g.columns)
               /\ rect.h = args.rowspan * (master.h \div g.rows))

\* C17: grid_info() reports every option of the last grid() call, the key
\* "sticky" included, and place_info() reports the options of the last
\* place() call together with "width" and "height", the widget's size, and
\* relwidth == relheight == 0 when the call gave neither.
C17_InfoReportsLastCall ==
    /\ (lastOp = "grid" =>
            /\ "sticky" \in DOMAIN grid_info
            /\ grid_info.sticky = args.sticky
            /\ \A k \in {"row", "column", "rowspan", "columnspan", "ipadx",
                         "ipady", "padx", "pady"} : grid_info[k] = Num(args[k]))
    /\ (lastOp = "place" =>
            /\ {"width", "height"} \subseteq DOMAIN place_info
            /\ place_info.width = WidgetW
            /\ place_info.height = WidgetH
            /\ \A k \in {"x", "y", "relx", "rely", "relwidth", "relheight"} :
                    place_info[k] = Num(args[k]))

----------------------------------------------------------------------------
(* The configuration claims, checked under ConfSpec *)

\* the last call set a key and raised nothing
DidSet == lastOp = "configure_set" /\ raised = "none"

\* the last call read the key that the call before it set
ReadBack ==
    /\ lastOp = "configure_get"
    /\ prev.op = "configure_set"
    /\ prev.args.key = args.key

\* the attribute configure() holds under key k
Held(k) == IF k = "focused" THEN Num(focused) ELSE config[k]
HeldBefore(k) == IF k = "focused" THEN Num(pre.focused) ELSE pre.config[k]

\* C18: on the base widget, for each of width, height, foreground,
\* background, cursor and every value v, configure(k=v) stores v and leaves
\* the other keys as they were, and a configure(k) that follows returns v;
\* the same through widget[k] = v and widget[k].
C18_BaseRoundTrip ==
    kind \in {"_Widget", "DummyWidget"} =>
        /\ (DidSet /\ args.key \in BaseKeys =>
                /\ config[args.key] = args.value
                /\ \A k \in BaseKeys \ {args.key} : config[k] = pre.config[k])
        /\ (ReadBack /\ args.key \in BaseKeys => result = prev.args.value)

\* widget["width"] = 200 followed by widget.configure("width")
C18_Witness ==
    /\ kind = "_Widget"
    /\ ReadBack /\ args.key = "width" /\ ~args.item
    /\ prev.args.item /\ prev.args.value = Num(200)
    /\ result = Num(200)

\* C19: on Button, TextBox, SpinBox, ComboBox, RadioButton and MenuButton,
\* configure(k=v) followed by configure(k) returns v for every base-level
\* key and every key the class answers itself.
C19_SubclassRoundTrip ==
    kind \notin {"_Widget", "DummyWidget"} =>
        (ReadBack /\ args.key \in BaseKeys \cup OwnGetKeys(kind) =>
            result = prev.args.value)

\* C20: configure(k) for a key no level recognizes returns None and raises
\* nothing, and configure(k=v) for such a key raises nothing and leaves
\* every recognized value as it was (the setting half is stated for the
\* classes whose setting code does not go through Button's _kwarg_get).
C20_UnknownKeyForgiven ==
    /\ (lastOp = "configure_get" /\ args.key \notin Recognized =>
            result = NoNum /\ raised = "none")
    /\ (lastOp = "configure_set" /\ args.key \notin Recognized
                                 /\ kind # "Button" =>
            /\ raised = "none"
            /\ \A k \in Recognized : Held(k) = HeldBefore(k))

\* an unknown key set on a SpinBox whose value an earlier call had changed
C20_Witness ==
    /\ kind = "SpinBox"
    /\ lastOp = "configure_set" /\ args.key = "nosuchkey"
    /\ prev.op = "configure_set" /\ prev.args.key = "value"
    /\ config.value = Num(1)

----------------------------------------------------------------------------
(* The Button state claim, checked under Spec *)

\* the state name the flags call for: "disabled" over "hovered" over
\* "clicked" over "normal"
DerivedState ==
    CASE disabled -> "disabled"
      [] ~disabled /\ hover -> "hovered"
      [] ~disabled /\ ~hover /\ clicked -> "clicked"
      [] OTHER -> "normal"

----------------------------------------------------------------------------
(* The manager-switching claim, checked under MgrSpec *)

\* rect of a widget no manager has been called on
FreshRect == [x |-> 0, y |-> 0, w |-> WidgetW, h |-> WidgetH]

\* the rect the last manager call produces on a fresh widget of the same
\* size on the same parent
RectOnFresh ==
    CASE lastOp = "pack" ->
            PackRect(FreshRect, PackStore(InitOpt, args), master)
      [] lastOp = "grid" ->
            GridRect(FreshRect, GridStore(InitOpt, args), master,
                     DefaultGridSize)
      [] lastOp = "place" ->
            PlaceRect(FreshRect, PlaceStore(InitOpt, args))

\* C22: after any sequence of place, pack and grid calls rect is what the
\* last call alone produces on a fresh widget: the options and the rect left
\* by the calls before it have no effect.
C22_StaleStateInert ==
    lastOp \in {"pack", "grid", "place"} => rect = RectOnFresh

----------------------------------------------------------------------------
(* The geometry cache claim, checked under CacheSpec *)

\* the operations that are not geometry managers
NonGeometryOps ==
    {"hide", "show", "enable", "disable", "focus", "unfocus", "draw",
     "handle", "update", "configure_set", "configure_get"}

\* C23: handle(), update(), draw(), show(), hide(), enable(), disable(),
\* focus(), unfocus() and configure(), configure(width=..., height=...)
\* included, leave rect as it was before the call.
C23_GeometryCached ==
    lastOp \in NonGeometryOps => rect = pre.rect

\* configure(width=...) on a widget that grid() has put into a cell: the
\* requested width changes and rect keeps the cell
C23_Witness ==
    /\ kind = "DummyWidget"
    /\ lastOp = "configure_set" /\ args.key = "width"
    /\ config.width = Num(MasterW) /\ pre.config.width = Num(WidgetW)
    /\ rect = [x |-> 2 * (MasterW \div 3), y |-> MasterH \div 3,
               w |-> MasterW \div 3, h |-> MasterH \div 3]

----------------------------------------------------------------------------
(* The size claim, checked under ConfSpec *)

\* the last call tried to set the width or the height to a negative value
NegativeSizeGiven ==
    /\ lastOp \in {"set_size", "configure_set"}
    /\ args.key \in {"width", "height"}
    /\ Val(args.value) < 0

\* C24: the requested width and height are non-negative in every reachable
\* state: a negative value given through the property, configure() or
\* widget[...] raises a validation error and the previous value is kept.
C24_SizeNonNegative ==
    /\ Val(config.width) >= 0
    /\ Val(config.height) >= 0
    /\ (NegativeSizeGiven => raised = "ValueError" /\ config = pre.config)

----------------------------------------------------------------------------
(* Theme claims *)

\* the theme file named by the last load_theme call could not be loaded
LoadFailed == lastOp = "load_theme" /\ FileSystem[args.file].status # "ok"

\* C25: a widget paints with the style values it copied at construction:
\* after every draw, the attributes painted are those that painting with the
\* theme of construction time gives, whatever theme has been loaded since.
C25_StyleCopiedAtConstruction ==
    lastOp = "themed_draw" =>
        painted = PaintWith(wkind, style, built, args.state)

\* a theme that has the font entries, so that what it lacks is a class, a
\* state or an attribute
HasFonts(t) ==
    /\ HasPath(t, <<"font", "family">>)
    /\ HasPath(t, <<"font", "size">>)
    /\ HasPath(t, <<"Font", "family">>)

\* C26: a style lookup for a missing class, state or attribute falls back
\* to a default: constructing a widget under a theme that has the font
\* entries never raises.
C26_MissingStyleFallsBack ==
    (lastOp = "construct" /\ HasFonts(theme)) => raised = "none"

\* C27: a failing theme load is propagated and atomic: the error reaches
\* the caller, and the theme and the loaded name keep their previous values.
C27_FailedLoadAtomic ==
    LoadFailed =>
        /\ raised \in {"FileNotFoundError", "PermissionError",
                       "JSONDecodeError"}
        /\ theme = pre.theme
        /\ loaded = pre.loaded

\* a load of invalid JSON after the blue theme was loaded
C27_Witness ==
    /\ LoadFailed
    /\ raised = "JSONDecodeError"
    /\ pre.loaded = "blue"
    /\ theme = FullTheme(1)

----------------------------------------------------------------------------
(* The widget manager claims, checked under RegSpec *)

\* C28: registering a widget that is already registered raises
\* AlreadyRegistered and leaves the manager's children unchanged.
C28_RegisterTwiceRejected ==
    (lastOp = "register" /\ is_registered(pre.children, args.widget)) =>
        /\ raised = "AlreadyRegistered"
        /\ children = pre.children

\* no widget is held more than once by the manager
RegisteredOnce ==
    \A w \in Roots :
        Cardinality({<<l, i>> \in Layers \X (1..MaxRegs) :
                        /\ l \in DOMAIN children
                        /\ i <= Len(children[l])
                        /\ children[l][i] = w}) <= 1

\* x is a descendant of w
RECURSIVE Descendant(_, _)
Descendant(x, w) ==
    \E i \in 1..Len(WidgetChildren[w]) :
        \/ WidgetChildren[w][i] = x
        \/ Descendant(x, WidgetChildren[w][i])

\* the layer a registered widget is held in
LayerOf(w) == CHOOSE l \in DOMAIN children : In(w, children[l])

\* C29: walk_widgets yields in reverse draw order, each widget once: for
\* any root and layer arguments no widget is yielded twice and a descendant
\* comes before its ancestor; walking all layers without a root yields the
\* registered widgets from the highest layer to the lowest and, within a
\* layer, the later registered first.
C29_WalkReverseDrawOrder ==
    (lastOp = "walk_widgets" /\ RegisteredOnce) =>
        /\ \A i, j \in 1..Len(walked) :
              /\ i # j => walked[i] # walked[j]
              /\ Descendant(walked[i], walked[j]) => i < j
        /\ (args.root = None /\ args.layer = NoNum) =>
              /\ \A w \in Roots : is_registered(children, w) => In(w, walked)
              /\ \A i, j \in 1..Len(walked) :
                    (i < j /\ walked[i] \in Roots /\ walked[j] \in Roots) =>
                        \/ LayerOf(walked[i]) > LayerOf(walked[j])
                        \/ /\ LayerOf(walked[i]) = LayerOf(walked[j])
                           /\ \E m, n \in 1..MaxRegs :
                                 LET s == children[LayerOf(walked[i])]
                                 IN /\ n < m /\ m <= Len(s)
                                    /\ s[m] = walked[i] /\ s[n] = walked[j]

----------------------------------------------------------------------------
(* The RadioButton claim, checked under RadioSpec *)

\* C30: at most one radio button of each named group is checked.
C30_OneCheckedPerGroup ==
    \A g \in Groups :
        Cardinality({rb \in made : group[rb] = g /\ checked[rb]}) <= 1

----------------------------------------------------------------------------
(* The registration link claim, checked under RegSpec *)

\* C40: a widget is registered if and only if its parent is the manager,
\* after any sequence of register, unregister and clear calls; in
\* particular after unregister(w) the widget w is not registered.
C40_ParentLinkConsistent ==
    \A w \in Roots : is_registered(children, w) <=> parent[w] = "manager"

----------------------------------------------------------------------------
(* The Button flag claim, checked under ButtonSpec *)

\* C36: on a Button, state is "disabled" exactly when the disabled flag is
\* set, after each enable(), disable() and update() call.
C36_DisabledStateIffFlag ==
    lastOp \in {"enable", "disable", "update"} =>
        (state = "disabled" <=> disabled)

----------------------------------------------------------------------------
(* The pack idempotence claim, checked under RepackSpec *)

\* C35: a second pack() with the same stored options, widget size and
\* parent leaves rect as the first pack() left it.
C35_PackIdempotent == lastOp = "pack again" => rect = pre.rect

----------------------------------------------------------------------------
(* The SpinBox claim, checked under SpinSpec *)

\* C31: the value of a SpinBox is within its bounds in every reachable
\* state: min_value <= value <= max_value.
C31_ValueWithinBounds ==
    /\ Val(config.min_value) <= Val(config.value)
    /\ Val(config.value) <= Val(config.max_value)

----------------------------------------------------------------------------
(* The Progressbar claims, checked under ProgressSpec *)

\* C32: after set(v), get() returns v clamped to the bounds: the bounds
\* given at construction when set(v) follows the construction, and
\* set_min(m) makes the minimum m, set_max(M) the maximum M.
C32_SetGetClamped ==
    /\ (lastOp = "set" /\ prev.op = "Progressbar") =>
          config.value = Clamp(args.value, prev.args.minimum,
                               prev.args.maximum)
    /\ lastOp = "set" =>
          config.value = Clamp(args.value, config.minimum, config.maximum)
    /\ (lastOp = "get" /\ prev.op = "set") => result = Num(config.value)
    /\ lastOp = "set_min" => config.minimum = args.minimum
    /\ lastOp = "set_max" => config.maximum = args.maximum

\* C33: step(n) adds n to the value when the sum is within the bounds.
C33_StepAdds ==
    (/\ lastOp = "step"
     /\ pre.config.minimum <= pre.config.value + args.value
     /\ pre.config.value + args.value <= pre.config.maximum) =>
        config.value = pre.config.value + args.value

----------------------------------------------------------------------------
(* The TextBox claims, checked under TextSpec *)

\* C34: user input never takes the text of a TextBox constructed with
\* max_length = N beyond N characters: a handled event that finds at most N
\* characters leaves at most N.
C34_MaxLengthKept ==
    (/\ lastOp = "handle"
     /\ config.max_length # NoNum
     /\ Len(pre.config.text) <= Val(config.max_length)) =>
        Len(config.text) <= Val(config.max_length)

\* C38: the cursor is inside the text in every reachable state.
C38_CursorInsideText ==
    0 <= config.cursor_pos /\ config.cursor_pos <= Len(config.text)

----------------------------------------------------------------------------
(* The construction claim, checked under MasterSpec *)

\* C37: construction resolves the parent reference for every kind of
\* master: a rectangle gives that rectangle and no surface, a surface gives
\* the surface and its rectangle, a widget gives the widget's surface and
\* rect, and only a missing master gives None for both.
C37_MasterResolved ==
    lastOp = "construct_on" =>
        /\ args.type = "Rect" =>
              result = [master |-> NoNum, master_rect |-> Num(args.rect)]
        /\ args.type \in {"Surface", "Widget"} =>
              result = [master |-> Num(args.surface),
                        master_rect |-> Num(args.rect)]
        /\ (result.master = NoNum /\ result.master_rect = NoNum) =>
              args.type = "None"

----------------------------------------------------------------------------
(* The ComboBox claim, checked under ComboSpec *)

\* the row of the open menu that the point of the last click lies in, or
\* -1: row i is the i-th strip of rect's height directly below rect
ClickedRow ==
    IF /\ rect.x <= args.pos[1] /\ args.pos[1] < rect.x + rect.w
       /\ rect.y + rect.h <= args.pos[2]
       /\ args.pos[2] < rect.y + rect.h * (Len(config.items) + 1)
    THEN (args.pos[2] - rect.y - rect.h) \div rect.h
    ELSE -1

\* C39: with the dropdown open, a left click on the row of item i selects
\* it, sets the text, closes the dropdown and calls on_select once, wherever
\* the widget is placed; a left click outside the box and the menu closes
\* the dropdown and leaves the selection.
C39_ClickSelectsRow ==
    (lastOp = "handle" /\ pre.config.dropdown_open
                       /\ ~CollidePoint(rect, args.pos)) =>
        IF ClickedRow >= 0
        THEN /\ config.selected = ClickedRow
             /\ config.text = config.items[ClickedRow + 1]
             /\ ~config.dropdown_open
             /\ called = "on_select"
        ELSE /\ ~config.dropdown_open
             /\ config.selected = pre.config.selected
             /\ called = "none"

============================================================================
